---- MODULE Spec2Model ----
(***************************************************************************)
(* Session orchestrator of the TextMe daemon: the poll cycle, the command  *)
(* router, the un-awaited processMessage executions, the queue drain and   *)
(* the worker session (daemon/src/index.ts, daemon/dist/claude-session.js, *)
(* db.ts).                                                                 *)
(*                                                                         *)
(* The daemon is one single-threaded event loop.  A step of the model is   *)
(* one run of JavaScript between two suspension points that wait for I/O   *)
(* or a timer (a transport call, the worker's events, the backoff timer).  *)
(* The poll loop's synchronous walk over a fetched batch is split into one *)
(* step per message; while pollPc = "loop" the poll cycle holds the thread *)
(* and no other step is enabled.                                           *)
(***************************************************************************)
EXTENDS Integers, Sequences, FiniteSets, TLC

(***************************************************************************)
(* Bounds of the model.                                                    *)
(***************************************************************************)
MaxBatch == 2          \* messages returned by one fetch
MaxClock == 2          \* clock ticks (of TickMs) the model lets pass
MaxOut == 1            \* text blocks one worker attempt writes
MaxChains == 3         \* processMessage executions alive at once
MaxProcs == 3          \* worker processes not yet closed
MaxSessions == 3       \* ClaudeSession objects still referenced
MaxTools == 3          \* tool-invocation events one worker attempt writes
MaxRaw == 2            \* stdout lines of one attempt that are no JSON
MaxLagMs == 1          \* how late the timer of one sleep of shutdown() fires

(***************************************************************************)
(* Program constants.                                                      *)
(***************************************************************************)
TickMs == 500          \* granularity of Date.now() in the model
maxRetries == 3
baseDelayMs == 5000
PollLookbackMs == 60000
MAX_LENGTH == 15000
activityIntervalMs == 1000
EpochMs == 1000000     \* Date.now() when the model's clock reads 0
maxWait == 30000       \* shutdown(): longest wait for the running task
WaitStepMs == 500      \* shutdown(): sleep between two looks at the flag

NoProc == 0            \* currentProcess === null
NoSession == 0         \* currentSession === null
NoTask == -1           \* currentTaskId === null

(***************************************************************************)
(* Strings are sequences of one-character strings, so that trim() and      *)
(* toLowerCase() are computed rather than assumed.                         *)
(***************************************************************************)
IsSpace(c) == c \in {" ", "\n", "\t"}

RECURSIVE TrimLeft(_)
TrimLeft(s) ==
  IF s = <<>> THEN <<>>
  ELSE IF IsSpace(Head(s)) THEN TrimLeft(Tail(s)) ELSE s

RECURSIVE TrimRight(_)
TrimRight(s) ==
  IF s = <<>> THEN <<>>
  ELSE IF IsSpace(s[Len(s)]) THEN TrimRight(SubSeq(s, 1, Len(s) - 1)) ELSE s

Trim(s) == TrimRight(TrimLeft(s))

LowerChar(c) ==
  CASE c = "C" -> "c"
    [] c = "D" -> "d"
    [] c = "H" -> "h"
    [] c = "N" -> "n"
    [] c = "O" -> "o"
    [] c = "P" -> "p"
    [] c = "Q" -> "q"
    [] c = "S" -> "s"
    [] c = "T" -> "t"
    [] c = "U" -> "u"
    [] c = "V" -> "v"
    [] c = "W" -> "w"
    [] c = "X" -> "x"
    [] c = "Y" -> "y"
    [] c = "Z" -> "z"
    [] OTHER -> c

ToLowerCase(s) == [i \in 1..Len(s) |-> LowerChar(s[i])]

Normalized(content) == Trim(ToLowerCase(content))

(***************************************************************************)
(* The inbound events the transport can deliver: id -> sender and body.    *)
(***************************************************************************)
PhoneA == <<"+", "1", "5", "5", "5", "0", "0", "0", "1">>
\* the same number as the transport may format it
PhoneAFormatted == <<"1", " ", "(", "5", "5", "5", ")", " ", "0", "0", "0", "1">>
\* another number, with the same national part
PhoneB == <<"+", "2", "5", "5", "5", "0", "0", "0", "1">>

EventBody(id) ==
  CASE id = 0 -> <<"d", "o", " ", "W">>
    [] id = 1 -> <<"d", "o", " ", "X">>
    [] id = 2 -> <<" ", "D", "o", " ", "Y">>
    [] id = 3 -> <<"S", "t", "a", "t", "u", "s">>
    [] id = 4 -> <<"s", "t", "o", "p", " ">>
    [] id = 5 -> <<"?">>
    [] id = 6 -> <<"d", "o", " ", "Z">>
    [] id = 7 -> <<"Q">>
    [] id = 8 -> <<"h">>
    [] id = 9 -> <<"d", "o", " ", "V">>
    [] id = 10 -> <<"Y", "e", "s">>
    [] id = 11 -> <<"m", "a", "y", "b", "e">>
    [] id = 12 -> <<"C", "a", "n", "c", "e", "l">>
    [] id = 13 -> <<"H", "o", "m", "e">>
    [] id = 14 -> <<"r", "e", "s", "e", "t">>
    [] id = 15 -> <<"c", "d", " ", "/", "t", "m", "p", "/", "w">>
    [] id = 16 -> <<"C", "D", " ", " ", "/", "h", "o", "m", "e", "/", "o", "p", "x">>
    [] id = 17 -> <<"c", "d", " ", "/", "t", "m", "p", "/", ".", ".", "/", "e", "t", "c">>
    [] id = 18 -> <<"c", "d", " ", "~", "/", "n", "o">>
    [] id = 19 -> <<"d", "o", " ", "U">>
    [] id = 20 -> <<"d", "o", " ", "T">>
    [] OTHER -> <<>>

EventIds == 0..20

EventSender(id) ==
  CASE id = 19 -> PhoneB
    [] id = 20 -> PhoneAFormatted
    [] OTHER -> PhoneA

Senders == {PhoneA, PhoneAFormatted, PhoneB}

(***************************************************************************)
(* Command router: the predicates of index.ts, in the order poll() asks    *)
(* them.                                                                   *)
(***************************************************************************)
isHelpCommand(content) ==
  Normalized(content) \in {<<"h", "e", "l", "p">>, <<"?">>}

isStatusCommand(content) ==
  Normalized(content) \in {<<"s", "t", "a", "t", "u", "s">>,
                           <<"s", "t", "a", "t", "u", "s", "?">>}

isQueueCommand(content) ==
  Normalized(content) \in {<<"q", "u", "e", "u", "e">>, <<"q">>}

IsDigit(c) == c \in {"0", "1", "2", "3", "4", "5", "6", "7", "8", "9"}

\* /^(?:history|h)\s+(\d+)$/
HistoryExpand(normalized) ==
  \E k \in {1, 7} : \E j \in (k + 1)..(Len(normalized) - 1) :
    /\ SubSeq(normalized, 1, k) \in {<<"h">>, <<"h", "i", "s", "t", "o", "r", "y">>}
    /\ \A i \in (k + 1)..j : IsSpace(normalized[i])
    /\ \A i \in (j + 1)..Len(normalized) : IsDigit(normalized[i])

isHistoryCommand(content) ==
  \/ Normalized(content) \in {<<"h", "i", "s", "t", "o", "r", "y">>, <<"h">>}
  \/ HistoryExpand(Normalized(content))

isInterruptCommand(content) ==
  Normalized(content) \in {<<"i", "n", "t", "e", "r", "r", "u", "p", "t">>,
                           <<"s", "t", "o", "p">>,
                           <<"c", "a", "n", "c", "e", "l">>}

\* config.whitelist
whitelist == {PhoneA}

\* num.replace(/\D/g, '')
normalize(num) == SelectSeq(num, IsDigit)

\* a whitelist check that compares the national part of the numbers only
isWhitelistedNational(phoneNumber) ==
  \E w \in whitelist :
    /\ Len(normalize(w)) >= 7 /\ Len(normalize(phoneNumber)) >= 7
    /\ SubSeq(normalize(w), Len(normalize(w)) - 6, Len(normalize(w)))
         = SubSeq(normalize(phoneNumber), Len(normalize(phoneNumber)) - 6,
                  Len(normalize(phoneNumber)))

isWhitelisted(phoneNumber) ==
  \E w \in whitelist : normalize(w) = normalize(phoneNumber)

isHomeCommand(content) == Normalized(content) = <<"h", "o", "m", "e">>

isResetCommand(content) ==
  Normalized(content) \in {<<"r", "e", "s", "e", "t">>, <<"f", "r", "e", "s", "h">>,
                           <<"n", "e", "w", " ", "s", "e", "s", "s", "i", "o", "n">>}

\* os.homedir()
HomeDir == <<"/", "h", "o", "m", "e", "/", "o", "p">>
\* process.cwd() of the daemon
ProcessCwd == <<"/", "s", "r", "v", "/", "t", "e", "x", "t", "m", "e">>

StartsWith(s, prefix) ==
  Len(s) >= Len(prefix) /\ SubSeq(s, 1, Len(prefix)) = prefix

\* the pieces of a path between its "/" separators
RECURSIVE Segments(_)
Segments(s) ==
  IF s = <<>> THEN << <<>> >>
  ELSE LET rest == Segments(Tail(s))
       IN IF Head(s) = "/" THEN << <<>> >> \o rest
          ELSE << <<Head(s)>> \o Head(rest) >> \o Tail(rest)

\* "." and empty segments dropped, ".." climbing one level
RECURSIVE NormalizeSegments(_, _)
NormalizeSegments(segs, stack) ==
  IF segs = <<>> THEN stack
  ELSE LET seg == Head(segs)
       IN NormalizeSegments(
            Tail(segs),
            IF seg = <<>> \/ seg = <<".">> THEN stack
            ELSE IF seg = <<".", ".">>
                 THEN IF stack = <<>> THEN stack
                      ELSE SubSeq(stack, 1, Len(stack) - 1)
                 ELSE Append(stack, seg))

RECURSIVE JoinPath(_)
JoinPath(segs) ==
  IF segs = <<>> THEN <<>> ELSE <<"/">> \o Head(segs) \o JoinPath(Tail(segs))

\* path.resolve(targetPath)
resolve(targetPath) ==
  LET absolute == IF targetPath # <<>> /\ Head(targetPath) = "/"
                  THEN targetPath
                  ELSE ProcessCwd \o <<"/">> \o targetPath
      segs == NormalizeSegments(Segments(absolute), <<>>)
  IN IF segs = <<>> THEN <<"/">> ELSE JoinPath(segs)

\* the part of a path the allowed roots are compared with, taken tree-wise:
\* the root itself or something below it
Within(resolvedPath, root) ==
  \/ resolvedPath = root
  \/ StartsWith(resolvedPath, root \o <<"/">>)

AccessDenied == <<"Access denied: path outside allowed directories">>

\* content.match(/^cd\s+(.+)$/i) on the trimmed content
CdMatches(normalized) ==
  /\ Len(normalized) >= 4
  /\ ToLowerCase(SubSeq(normalized, 1, 2)) = <<"c", "d">>
  /\ IsSpace(normalized[3])
  /\ LET rest == TrimLeft(SubSeq(normalized, 3, Len(normalized)))
     IN rest # <<>> /\ \A i \in 1..Len(rest) : rest[i] # "\n"

\* the resolved path of a text that matches: match[1], "~" expanded
CdResolved(normalized) ==
  LET match1 == Trim(SubSeq(normalized, 3, Len(normalized)))
      targetPath == IF Head(match1) = "~"
                    THEN HomeDir \o Tail(match1) ELSE match1
  IN resolve(targetPath)

isCdCommand(content) ==
  LET normalized == Trim(content)
  IN IF CdMatches(normalized)
     THEN LET resolvedPath == CdResolved(normalized)
          IN IF /\ ~StartsWith(resolvedPath, HomeDir)
                /\ ~StartsWith(resolvedPath, <<"/", "t", "m", "p">>)
             THEN [isCD |-> TRUE, path |-> <<>>, error |-> AccessDenied]
             ELSE [isCD |-> TRUE, path |-> resolvedPath, error |-> <<>>]
     ELSE [isCD |-> FALSE, path |-> <<>>, error |-> <<>>]

approvePatterns ==
  {<<"y", "e", "s">>, <<"y">>, <<"a", "p", "p", "r", "o", "v", "e">>,
   <<"o", "k">>, <<"g", "o">>, <<"r", "u", "n", " ", "i", "t">>,
   <<"d", "o", " ", "i", "t">>}

rejectPatterns ==
  {<<"n", "o">>, <<"n">>, <<"r", "e", "j", "e", "c", "t">>,
   <<"c", "a", "n", "c", "e", "l">>, <<"d", "e", "n", "y">>, <<"s", "t", "o", "p">>}

\* an approval-word test that takes every other text for a refusal
isApprovalResponseOrRefusal(content) ==
  IF Normalized(content) \in approvePatterns
  THEN [isApproval |-> TRUE, approved |-> TRUE]
  ELSE [isApproval |-> TRUE, approved |-> FALSE]

isApprovalResponse(content) ==
  LET normalized == Normalized(content)
  IN IF normalized \in approvePatterns
     THEN [isApproval |-> TRUE, approved |-> TRUE]
     ELSE IF normalized \in rejectPatterns
     THEN [isApproval |-> TRUE, approved |-> FALSE]
     ELSE [isApproval |-> FALSE, approved |-> FALSE]

\* the order in which poll() asks the predicates; what is none of the
\* commands is an approval reply or a request, depending on the store
Classify(content) ==
  IF isHelpCommand(content) THEN "help"
  ELSE IF isStatusCommand(content) THEN "status"
  ELSE IF isQueueCommand(content) THEN "queue"
  ELSE IF isHistoryCommand(content) THEN "history"
  ELSE IF isInterruptCommand(content) THEN "interrupt"
  ELSE IF isHomeCommand(content) THEN "home"
  ELSE IF isResetCommand(content) THEN "reset"
  ELSE IF isCdCommand(content).isCD THEN "cd"
  ELSE "freeform"

VARIABLES
  \* durable store (db.ts)
  processed,            \* processed_messages: set of message ids
  queue,                \* message_queue rows, in rowid order
  nextQueueId,          \* AUTOINCREMENT counter of message_queue
  runningTasks,         \* running_tasks rows
  conv,                 \* conversations rows per phone number, in rowid order
  approvals,            \* pending_approvals rows, in rowid order
  currentProject,       \* state row 'current_project' (<<>> when absent)
  \* index.ts globals
  isPolling,
  isProcessingMessage,
  pollPc,               \* where the poll cycle is
  batch,                \* messages of the fetched batch not yet visited
  chains,               \* processMessage / processQueue executions
  \* claude-session.js
  currentSession,
  currentDir,
  sessions,             \* ClaudeSession objects
  procs,                \* spawned worker processes and their attempt closures
  \* environment
  now,                  \* Date.now()
  inbound,              \* ids the transport can return
  features,             \* what the environment does in this run
  lastPollTime,         \* the fetch watermark
  fetchSince,           \* argument of the getInboundMessages call in flight
  fetchThrew,           \* a fetch of this run has thrown
  \* the host
  lock,                 \* the PID file and the daemon instances using it
  life,                 \* shutdown(): the signal handler's state
  stdio,                \* the stdout pipe of one worker, chunk by chunk
  \* observation
  outbox,               \* sendMessage calls made by the last step
  dispatched            \* per event id: times it reached the command router

dbVars == <<processed, queue, nextQueueId, runningTasks, conv, approvals,
           currentProject>>
fetchVars == <<lastPollTime, fetchSince, fetchThrew>>
hostVars == <<lock, life, stdio>>
sessVars == <<currentSession, currentDir, sessions, procs>>
vars == <<processed, queue, nextQueueId, runningTasks, conv, approvals,
          currentProject, isPolling,
          isProcessingMessage, pollPc, batch, chains, currentSession,
          currentDir, sessions, procs, now, inbound, features, outbox,
          dispatched,
          lastPollTime, fetchSince, fetchThrew, lock, life, stdio>>

(***************************************************************************)
(* Records.                                                                *)
(***************************************************************************)
FreeSession ==
  [used |-> FALSE, dir |-> <<>>, active |-> FALSE, taskId |-> NoTask,
   proc |-> NoProc, partial |-> <<>>]

FreeProc ==
  [state |-> "free", sess |-> NoSession, chain |-> 0, text |-> <<>>,
   settled |-> FALSE, lastActivityTime |-> 0, toolCount |-> 0,
   rawCount |-> 0, line |-> <<>>]

FreeChain ==
  [pc |-> "free", handle |-> 0, sender |-> <<>>, content |-> <<>>,
   fromQueue |-> FALSE, root |-> "", rootHandle |-> 0, sess |-> NoSession,
   taskId |-> NoTask, attempt |-> 0, delayMs |-> 0, response |-> <<>>,
   activityUpdateCount |-> 0, activityInFlight |-> 0,
   activityFailed |-> FALSE]

Msg(to, kind, text, num) ==
  [to |-> to, kind |-> kind, text |-> text, num |-> num]

(***************************************************************************)
(* db.ts                                                                   *)
(***************************************************************************)
\* a lookup that never finds the row
isMessageProcessedNever(set, id) == FALSE

isMessageProcessed(set, id) == id \in set

markMessageProcessed(set, id) == set \cup {id}

\* a plain INSERT, without OR IGNORE
queueMessageInsert(q, rowid, handle, phone, content, t) ==
  Append(q, [id |-> rowid, message_handle |-> handle,
             phone_number |-> phone, content |-> content,
             queued_at |-> t])

\* INSERT OR IGNORE: message_handle is UNIQUE
queueMessage(q, rowid, handle, phone, content, t) ==
  IF \E i \in 1..Len(q) : q[i].message_handle = handle
  THEN q
  ELSE Append(q, [id |-> rowid, message_handle |-> handle,
                  phone_number |-> phone, content |-> content,
                  queued_at |-> t])

\* ORDER BY queued_at ASC LIMIT 1: the first row, in rowid order, among
\* those with the least queued_at (idx_queue_order)
NextQueuedIndex(q) ==
  CHOOSE i \in 1..Len(q) :
    \A j \in 1..Len(q) :
      \/ q[i].queued_at < q[j].queued_at
      \/ (q[i].queued_at = q[j].queued_at /\ i <= j)

getNextQueuedMessage(q) == q[NextQueuedIndex(q)]

removeQueuedMessage(q, rowid) ==
  SelectSeq(q, LAMBDA r : r.id # rowid)

getQueueLength(q) == Len(q)

\* an INSERT that is not preceded by the DELETE
setRunningTaskInsert(rows, id, description, t) ==
  rows \cup {[id |-> id, description |-> description, started_at |-> t,
              pid |-> NoProc]}

\* DELETE FROM running_tasks
clearRunningTask(rows) == {r \in rows : FALSE}

\* DELETE FROM running_tasks, then INSERT
setRunningTask(rows, id, description, t) ==
  clearRunningTask(rows)
    \cup {[id |-> id, description |-> description, started_at |-> t,
           pid |-> NoProc]}

updateRunningTaskPid(rows, id, pid) ==
  {IF r.id = id THEN [r EXCEPT !.pid = pid] ELSE r : r \in rows}

addConversationMessage(c, phone, role, content, t) ==
  [c EXCEPT ![phone] = Append(@, [role |-> role, content |-> content,
                                  timestamp |-> t])]

\* ORDER BY timestamp DESC LIMIT 1 OFFSET keepCount - 1, then
\* DELETE ... WHERE timestamp < cutoff
RECURSIVE CountNewer(_, _)
CountNewer(rows, t) ==
  IF rows = <<>> THEN 0
  ELSE (IF Head(rows).timestamp > t THEN 1 ELSE 0) + CountNewer(Tail(rows), t)

RECURSIVE CountAt(_, _)
CountAt(rows, t) ==
  IF rows = <<>> THEN 0
  ELSE (IF Head(rows).timestamp = t THEN 1 ELSE 0) + CountAt(Tail(rows), t)

trimConversationHistory(c, phone, keepCount) ==
  LET rows == c[phone]
      \* the timestamp of the keepCount-th most recent row, if there is one
      cut == {rows[i].timestamp : i \in
               {k \in 1..Len(rows) :
                  /\ CountNewer(rows, rows[k].timestamp) < keepCount
                  /\ CountNewer(rows, rows[k].timestamp)
                       + CountAt(rows, rows[k].timestamp) >= keepCount}}
  IN IF Len(rows) >= keepCount /\ cut # {}
     THEN LET cutoff == CHOOSE t \in cut : TRUE
          IN [c EXCEPT ![phone] = SelectSeq(rows, LAMBDA r : r.timestamp >= cutoff)]
     ELSE c

\* config.conversationWindowSize (20 unless the config file sets it), scaled
\* down so that the log is trimmed within a few requests
conversationWindowSize == 2

(***************************************************************************)
(* The state the executor and the session touch, as one record, so that    *)
(* the statements of a handler compose in program order.                   *)
(***************************************************************************)
\* the index of the row getPendingApproval returns, 0 for null
PendingIndex(rows, phoneNumber, t) ==
  LET matching == {i \in 1..Len(rows) : /\ rows[i].phone_number = phoneNumber
                                        /\ rows[i].expires_at > t}
  IN IF matching = {} THEN 0 ELSE CHOOSE i \in matching : \A j \in matching : i <= j

\* a lookup that does not look at expires_at
getPendingApprovalAnyAge(rows, phoneNumber, t) ==
  LET matching == {i \in 1..Len(rows) : rows[i].phone_number = phoneNumber}
  IN IF matching = {} THEN <<>>
     ELSE <<rows[CHOOSE i \in matching : \A j \in matching : i <= j]>>

\* the row as a sequence of at most one element (empty for null)
getPendingApproval(rows, phoneNumber, t) ==
  IF PendingIndex(rows, phoneNumber, t) = 0 THEN <<>>
  ELSE <<rows[PendingIndex(rows, phoneNumber, t)]>>

removePendingApproval(rows, id) ==
  SelectSeq(rows, LAMBDA r : r.id # id)

cleanupExpiredApprovals(rows, t) ==
  SelectSeq(rows, LAMBDA r : ~(r.expires_at < t))

clearConversationHistory(rows, phoneNumber) ==
  [rows EXCEPT ![phoneNumber] = <<>>]

World ==
  [queue |-> queue, runningTasks |-> runningTasks, conv |-> conv,
   approvals |-> approvals, currentProject |-> currentProject,
   isPolling |-> isPolling, isProcessingMessage |-> isProcessingMessage,
   pollPc |-> pollPc, chains |-> chains, currentSession |-> currentSession,
   currentDir |-> currentDir, sessions |-> sessions, procs |-> procs,
   out |-> <<>>]

\* a ClaudeSession object nothing refers to any more is garbage
SessionReferenced(w, s) ==
  \/ w.currentSession = s
  \/ \E p \in DOMAIN w.procs : w.procs[p].state # "free" /\ w.procs[p].sess = s
  \/ \E c \in DOMAIN w.chains : w.chains[c].pc # "free" /\ w.chains[c].sess = s

\* a killed worker whose attempt has settled and whose session nothing else
\* refers to: its 'close' handler can change nothing any more
ProcForgotten(w, p) ==
  /\ w.procs[p].state = "killed"
  /\ w.procs[p].settled
  /\ w.currentSession # w.procs[p].sess
  /\ \A c \in DOMAIN w.chains :
       w.chains[c].pc = "free" \/ w.chains[c].sess # w.procs[p].sess
  /\ \A q \in DOMAIN w.procs :
       q = p \/ w.procs[q].state = "free" \/ w.procs[q].sess # w.procs[p].sess

Collect(w) ==
  LET w1 == [w EXCEPT !.procs =
               [p \in DOMAIN w.procs |->
                  IF ProcForgotten(w, p) THEN FreeProc ELSE w.procs[p]]]
  IN [w1 EXCEPT !.sessions =
        [s \in DOMAIN w1.sessions |->
           IF SessionReferenced(w1, s) THEN w1.sessions[s] ELSE FreeSession]]

Commit(w) ==
  \E g \in {Collect(w)} :
     /\ queue' = g.queue
     /\ runningTasks' = g.runningTasks
     /\ conv' = g.conv
     /\ approvals' = g.approvals
     /\ currentProject' = g.currentProject
     /\ isPolling' = g.isPolling
     /\ isProcessingMessage' = g.isProcessingMessage
     /\ pollPc' = g.pollPc
     /\ chains' = g.chains
     /\ currentSession' = g.currentSession
     /\ currentDir' = g.currentDir
     /\ sessions' = g.sessions
     /\ procs' = g.procs
     /\ outbox' = g.out

Send(w, m) == [w EXCEPT !.out = Append(@, m)]

FreeSessionSlots(w) == {s \in DOMAIN w.sessions : ~w.sessions[s].used}
FreeProcSlots(w) == {p \in DOMAIN w.procs : w.procs[p].state = "free"}
FreeChainSlots(w) == {c \in DOMAIN w.chains : w.chains[c].pc = "free"}
Lowest(S) == CHOOSE x \in S : \A y \in S : x <= y

(***************************************************************************)
(* claude-session.js: ClaudeSession and the session manager                *)
(***************************************************************************)
\* a cleanup that forgets the task id and leaves the running_tasks row
cleanupKeepsRow(w, s) == [w EXCEPT !.sessions[s].taskId = NoTask]

cleanup(w, s) ==
  IF w.sessions[s].taskId # NoTask
  THEN [w EXCEPT !.runningTasks = clearRunningTask(@),
                 !.sessions[s].taskId = NoTask]
  ELSE w

kill(w, s) ==
  LET p == w.sessions[s].proc
      w1 == IF p # NoProc
            THEN [w EXCEPT !.procs[p].state = "killed",
                           !.sessions[s].proc = NoProc]
            ELSE w
  IN cleanup(w1, s)

exit(w, s) == kill([w EXCEPT !.sessions[s].active = FALSE], s)

isProcessing(w, s) == w.sessions[s].proc # NoProc

\* the session getOrCreateSession returns, after the call
getOrCreateSession(w, workingDir) ==
  IF /\ w.currentSession # NoSession
     /\ w.sessions[w.currentSession].active
     /\ w.currentDir = workingDir
  THEN w
  ELSE LET w1 == IF w.currentSession # NoSession
                 THEN exit(w, w.currentSession) ELSE w
           s == Lowest(FreeSessionSlots(w1))
       IN [w1 EXCEPT !.currentDir = workingDir,
                     !.currentSession = s,
                     !.sessions[s] = [FreeSession EXCEPT !.used = TRUE,
                                                         !.dir = workingDir,
                                                         !.active = TRUE]]

\* a directory change that leaves the session as it is
keepCurrentSession(w) == w

killCurrentSession(w) ==
  IF w.currentSession # NoSession
  THEN [kill(w, w.currentSession) EXCEPT !.currentSession = NoSession,
                                         !.currentDir = <<>>]
  ELSE w

\* interruptCurrentTask: the state after the call; its result is
\* InterruptResult
interruptCurrentTask(w) ==
  IF w.currentSession # NoSession /\ isProcessing(w, w.currentSession)
  THEN kill(w, w.currentSession)
  ELSE w

InterruptIsNull(w) ==
  ~(w.currentSession # NoSession /\ isProcessing(w, w.currentSession))

InterruptResult(w) ==
  IF InterruptIsNull(w) THEN <<>> ELSE w.sessions[w.currentSession].partial

(***************************************************************************)
(* index.ts: processMessage, askClaude, processQueue; ClaudeSession.send   *)
(***************************************************************************)
getWorkingDirectory(w) ==
  IF w.currentProject # <<>> THEN w.currentProject ELSE HomeDir

setWorkingDirectory(w, dir) == [w EXCEPT !.currentProject = dir]

RetryMarkers == {"529", "overload", "Overloaded", "rate_limit", "capacity"}

isRetryable(errorMsg) == \E i \in 1..Len(errorMsg) : errorMsg[i] \in RetryMarkers

NoResponse == <<"No response from Claude.">>
TimedOutMarker == <<"\n", "\n", "[Timed out]">>

Truncate(response) ==
  IF Len(response) > MAX_LENGTH
  THEN SubSeq(response, 1, MAX_LENGTH) \o <<"\n", "\n", "[Truncated]">>
  ELSE response

\* the caller of processMessage is resumed: poll() after its awaited
\* processQueue(), or nobody for an un-awaited call
chainReturn(w, c) ==
  IF w.chains[c].root = "poll"
  THEN [w EXCEPT !.chains[c] = FreeChain, !.isPolling = FALSE, !.pollPc = "idle"]
  ELSE [w EXCEPT !.chains[c] = FreeChain]

\* an exception leaves processMessage: poll()'s catch and finally, or the
\* .catch handler of the un-awaited call, which sends the system error
chainThrow(w, c, errorMsg) ==
  IF w.chains[c].root = "poll"
  THEN [w EXCEPT !.chains[c] = FreeChain, !.isPolling = FALSE, !.pollPc = "idle"]
  ELSE Send([w EXCEPT !.chains[c] =
                [FreeChain EXCEPT !.pc = "systemError",
                                  !.root = "detached",
                                  !.rootHandle = w.chains[c].rootHandle]],
            Msg(EventSender(w.chains[c].rootHandle), "systemError", errorMsg,
                w.chains[c].rootHandle))

processQueue(w, c) ==
  IF getQueueLength(w.queue) > 0 /\ ~w.isProcessingMessage
  THEN LET nextMessage == getNextQueuedMessage(w.queue)
           w1 == [w EXCEPT !.queue = removeQueuedMessage(@, nextMessage.id)]
       IN Send([w1 EXCEPT !.chains[c] =
                   [FreeChain EXCEPT !.pc = "nowProcessing",
                                     !.handle = nextMessage.message_handle,
                                     !.sender = nextMessage.phone_number,
                                     !.content = nextMessage.content,
                                     !.fromQueue = TRUE,
                                     !.root = w.chains[c].root,
                                     !.rootHandle = w.chains[c].rootHandle]],
               Msg(nextMessage.phone_number, "nowProcessing",
                   nextMessage.content, getQueueLength(w1.queue)))
  ELSE chainReturn(w, c)

\* the finally block of processMessage, then "await processQueue()"
finallyThenQueue(w, c) ==
  processQueue([w EXCEPT !.isProcessingMessage = FALSE], c)

\* the catch block of processMessage, up to its await
catch(w, c, errorMsg) ==
  Send([killCurrentSession(w) EXCEPT !.chains[c].pc = "sendingError",
                                     !.chains[c].sess = NoSession],
       Msg(w.chains[c].sender, "error", errorMsg, 0))

\* baseDelayMs * Math.pow(2, attempt - 1)
backoffDelay(attempt) == baseDelayMs * 2 ^ (attempt - 1)

\* a retry loop that does not count its attempts
onRejectUncounted(w, c, errorMsg) ==
  IF isRetryable(errorMsg)
  THEN [w EXCEPT !.chains[c].pc = "backoff",
                 !.chains[c].delayMs = backoffDelay(w.chains[c].attempt)]
  ELSE catch(w, c, errorMsg)

\* send(): the catch of the retry loop
onReject(w, c, errorMsg) ==
  IF isRetryable(errorMsg) /\ w.chains[c].attempt < maxRetries
  THEN [w EXCEPT !.chains[c].pc = "backoff",
                 !.chains[c].delayMs = backoffDelay(w.chains[c].attempt)]
  ELSE catch(w, c, errorMsg)

\* send() returned: askClaude returns, processMessage sends the response
onResolve(w, c, text) ==
  LET response == IF text = <<>> THEN NoResponse ELSE text
      finalResponse == Truncate(response)
  IN Send([w EXCEPT !.chains[c].pc = "sendingFinal",
                    !.chains[c].sess = NoSession,
                    !.chains[c].response = finalResponse],
          Msg(w.chains[c].sender, "final", finalResponse,
              IF w.chains[c].activityUpdateCount > 0 THEN 1 ELSE 0))

\* sendAttempt up to the promise it returns: the worker is spawned; the
\* description of the running_tasks row is the head of the prompt, which
\* the request's content stands for
sendAttempt(w, c, t) ==
  LET s == w.chains[c].sess
      taskId == w.chains[c].taskId
  IN IF ~w.sessions[s].active
     THEN onReject(w, c, <<"Claude session not active">>)
     ELSE LET p == Lowest(FreeProcSlots(w))
              w1 == [w EXCEPT
                       !.sessions[s].taskId = taskId,
                       !.runningTasks =
                          setRunningTask(@, taskId, w.chains[c].content, t),
                       !.sessions[s].partial = <<>>]
              w2 == [w1 EXCEPT
                       !.procs[p] = [FreeProc EXCEPT !.state = "running",
                                                     !.sess = s,
                                                     !.chain = c],
                       !.sessions[s].proc = p]
          IN [w2 EXCEPT
                !.runningTasks =
                   IF w2.sessions[s].taskId # NoTask
                   THEN updateRunningTaskPid(@, w2.sessions[s].taskId, p)
                   ELSE @,
                !.chains[c].pc = "running"]

\* processMessage from addConversationMessage on, through askClaude, to
\* the first attempt of session.send
execute(w, c, t) ==
  LET ch == w.chains[c]
      w1 == [w EXCEPT
               !.conv = addConversationMessage(@, ch.sender, "user", ch.content, t),
               !.isProcessingMessage = TRUE,
               !.chains[c].activityUpdateCount = 0]
      w2 == getOrCreateSession(w1, getWorkingDirectory(w1))
  IN sendAttempt([w2 EXCEPT !.chains[c].sess = w2.currentSession,
                            !.chains[c].taskId = t,
                            !.chains[c].attempt = 1],
                 c, t)

CanSpawn == FreeProcSlots(World) # {} /\ FreeSessionSlots(World) # {}

(***************************************************************************)
(* index.ts: getStatus, handleInterrupt                                    *)
(***************************************************************************)
\* Math.floor(ms / 1000)
FloorSeconds(ms) == ms \div 1000

\* Math.round(ms / 1000) for ms >= 0
RoundSeconds(ms) == (ms + 500) \div 1000

getRunningTask(rows) == CHOOSE r \in rows : TRUE

\* the reply of the status command: the session line, the directory, the
\* task line; num is the Elapsed value (-1 when the line is absent)
getStatus(w, t) ==
  LET active == /\ w.currentSession # NoSession
                /\ w.sessions[w.currentSession].active
      head == <<IF active THEN "Status: Active" ELSE "Status: No session",
                getWorkingDirectory(w)>>
      queued == IF getQueueLength(w.queue) > 0 THEN <<"queued">> ELSE <<>>
  IN IF w.runningTasks # {}
     THEN [text |-> head \o <<"Working on", "Elapsed">> \o queued,
           num |-> RoundSeconds(t - getRunningTask(w.runningTasks).started_at)]
     ELSE [text |-> head \o <<"Ready for input">> \o queued, num |-> -1]

handleInterrupt(w, phoneNumber) ==
  IF w.runningTasks = {}
  THEN Send(w, Msg(phoneNumber, "nothingToInterrupt", <<>>, 0))
  ELSE LET partialOutput == InterruptResult(w)
           w1 == interruptCurrentTask(w)
       IN IF Trim(partialOutput) # <<>>
          THEN Send(w1, Msg(phoneNumber, "interruptedPartial", partialOutput, 0))
          ELSE Send(w1, Msg(phoneNumber, "interruptedNoOutput", <<>>, 0))

(***************************************************************************)
(* The single-instance lock: acquireLock, isOurDaemon and releaseLock of   *)
(* index.ts.  A daemon instance is named by its pid; the PID file is <<>>  *)
(* when absent and <<pid>> otherwise.  Every file-system call is one step. *)
(***************************************************************************)
Instances == {1, 2}

lockMaxRetries == 3

\* shutdown() has not been called: the poll timer is set, the store is open
Running ==
  [shutdownRequested |-> FALSE, pc |-> "running", signals |-> 0, waited |-> 0,
   lag |-> 0, exitCode |-> -1, pollInterval |-> TRUE, dbOpen |-> TRUE]

OffInstance == [pc |-> "off", attempt |-> 0, existingPid |-> 0]

\* the process exists and its command line is the daemon's
LiveInstance(l, pid) ==
  pid \in Instances /\ l.inst[pid].pc \notin {"off", "refused"}

isOurDaemon(l, pid) == LiveInstance(l, pid)

\* the instance that runs this process: it acquired the lock in main()
HeldLock ==
  [file |-> <<1>>,
   inst |-> [i \in Instances |->
               IF i = 1 THEN [OffInstance EXCEPT !.pc = "held"] ELSE OffInstance]]

\* the catch of acquireLock: the last attempt gives up, an earlier one loops
acquireCatch(l, i) ==
  IF l.inst[i].attempt = lockMaxRetries - 1
  THEN [l EXCEPT !.inst[i].pc = "refused"]
  ELSE [l EXCEPT !.inst[i].pc = "exists", !.inst[i].attempt = @ + 1]

\* "if (fs.existsSync(PID_FILE))"
acquireExists(l, i) ==
  IF l.file # <<>>
  THEN [l EXCEPT !.inst[i].pc = "read"]
  ELSE [l EXCEPT !.inst[i].pc = "write"]

\* "existingPid = parseInt(fs.readFileSync(PID_FILE))": throws when the
\* file is gone
acquireRead(l, i) ==
  IF l.file = <<>>
  THEN acquireCatch(l, i)
  ELSE [l EXCEPT !.inst[i].pc = "check", !.inst[i].existingPid = l.file[1]]

\* "if (isOurDaemon(existingPid) && existingPid !== process.pid)": wait and
\* retry, or give up on the last attempt; otherwise the file is stale
acquireCheck(l, i) ==
  LET existingPid == l.inst[i].existingPid
  IN IF isOurDaemon(l, existingPid) /\ existingPid # i
     THEN IF l.inst[i].attempt < lockMaxRetries - 1
          THEN [l EXCEPT !.inst[i].pc = "exists", !.inst[i].attempt = @ + 1]
          ELSE [l EXCEPT !.inst[i].pc = "refused"]
     ELSE [l EXCEPT !.inst[i].pc = "write"]

\* "fs.writeFileSync(PID_FILE, process.pid.toString()); return true"
acquireWrite(l, i) == [l EXCEPT !.file = <<i>>, !.inst[i].pc = "held"]

\* releaseLock: existsSync, readFileSync and unlinkSync; an error is logged
releaseExists(l, i) ==
  IF l.file # <<>>
  THEN [l EXCEPT !.inst[i].pc = "relRead"]
  ELSE [l EXCEPT !.inst[i] = OffInstance]

releaseRead(l, i) ==
  IF l.file # <<>> /\ l.file[1] = i
  THEN [l EXCEPT !.inst[i].pc = "relUnlink"]
  ELSE [l EXCEPT !.inst[i] = OffInstance]

releaseUnlink(l, i) == [l EXCEPT !.file = <<>>, !.inst[i] = OffInstance]

\* releaseLock when no other process touches the file in between
releaseLock(l, i) ==
  LET l1 == releaseExists(l, i)
      l2 == IF l1.inst[i].pc = "relRead" THEN releaseRead(l1, i) ELSE l1
  IN IF l2.inst[i].pc = "relUnlink" THEN releaseUnlink(l2, i) ELSE l2

(***************************************************************************)
(* Initial state: the daemon has started (init() created the session) on a *)
(* store that is empty or holds a request queued by an earlier run.        *)
(***************************************************************************)
StaleRow(rowid, handle, t) ==
  [id |-> rowid, message_handle |-> handle, phone_number |-> EventSender(handle),
   content |-> Trim(EventBody(handle)), queued_at |-> t]

\* the message_queue rows an earlier run left behind: requests 0 and 9,
\* queued in that order
StaleQueue(n) == SubSeq(<<StaleRow(1, 0, -2), StaleRow(2, 9, -1)>>, 1, n)

\* the running_tasks row of a request that a previous daemon process was
\* executing when it died: initDb creates the table only if it is missing and
\* init() deletes nothing from it
StaleTask ==
  [id |-> -5, description |-> <<"o", "l", "d">>, started_at |-> -5,
   pid |-> NoProc]

\* no pipe is looked at
NoStream ==
  [written |-> <<>>, pending |-> <<>>, lineBuffer |-> <<>>, lines |-> <<>>,
   closed |-> FALSE]

InitCommon ==
  /\ conv = [p \in Senders |-> <<>>]
  /\ isPolling = FALSE
  /\ isProcessingMessage = FALSE
  /\ pollPc = "idle"
  /\ batch = <<>>
  /\ chains = [c \in 1..MaxChains |-> FreeChain]
  /\ currentSession = 1
  /\ currentProject = <<>>
  /\ currentDir = HomeDir
  /\ sessions = [s \in 1..MaxSessions |->
                   IF s = 1
                   THEN [FreeSession EXCEPT !.used = TRUE,
                                            !.dir = HomeDir,
                                            !.active = TRUE]
                   ELSE FreeSession]
  /\ procs = [p \in 1..MaxProcs |-> FreeProc]
  /\ now = 0
  /\ lastPollTime = 0 - PollLookbackMs
  /\ fetchSince = <<>>
  /\ fetchThrew = FALSE
  /\ life = Running
  /\ outbox = <<>>
  /\ dispatched = [id \in EventIds |-> 0]

\* The runs explored: the ids the transport returns, what the store held
\* at startup, and which of its moves the environment makes (a transport
\* call failing, the clock advancing, a worker writing text or white space,
\* crashing, failing with an overload error, or outliving its timeout).
Scenario(ids, stale, feats) ==
  [inbound |-> ids, stale |-> stale, features |-> feats, approvals |-> <<>>]

\* a pending_approvals row (addPendingApproval has no caller in the daemon:
\* the rows are there when it starts)
Approval(id, phone, expires) ==
  [id |-> id, phone_number |-> phone, expires_at |-> expires]

ApprovalTimeoutMs == 300000

StartedWith(ids, rows, feats) ==
  [inbound |-> ids, stale |-> "none", features |-> feats, approvals |-> rows]

Scenarios ==
  { Scenario({1, 2}, "none", {"text", "crash", "sendfail"}),
    Scenario({1, 2}, "none", {"text", "timeout"}),
    Scenario({1, 2, 4}, "none", {"text"}),
    Scenario({1, 2, 6}, "none", {}),
    Scenario({1}, "queued", {"text"}),
    Scenario({3}, "queued", {}),
    Scenario({1}, "queued2", {}),
    Scenario({0, 1, 5}, "pruned", {}),
    Scenario({1, 3}, "none", {"text", "clock"}),
    Scenario({1, 4}, "none", {"text", "blank", "timeout", "crash"}),
    Scenario({1}, "none", {"overload"}),
    Scenario({1, 5, 7, 8}, "none", {"text"}),
    Scenario({1, 19, 20}, "none", {"text"}),
    StartedWith({4, 10, 11}, <<Approval(1, PhoneA, ApprovalTimeoutMs)>>, {"text"}),
    StartedWith({3, 10, 12},
                <<Approval(1, PhoneA, -1), Approval(2, PhoneA, TickMs)>>,
                {"clock", "sweep"}),
    StartedWith({1, 15, 16}, <<>>, {"text"}),
    StartedWith({13, 14, 15, 17, 18}, <<>>, {}),
    Scenario({1}, "none", {"text", "signal"}),
    Scenario({1, 2, 13}, "none", {"text"}),
    Scenario({1}, "none", {"tool", "clock"}),
    Scenario({1}, "none", {"text", "tool", "sendfail"}),
    Scenario({1}, "none", {"raw", "tool"}),
    Scenario({1}, "none", {"restarted", "text", "sendfail"}),
    Scenario({1, 3}, "none", {"since", "sendfail"}),
    Scenario({1, 13}, "none", {"overload"}),
    Scenario({1, 4}, "none", {"overload"}),
    Scenario({1, 2}, "none", {"signal"}) }

Init ==
  /\ InitCommon
  /\ lock = HeldLock
  /\ stdio = NoStream
  /\ \E sc \in Scenarios :
       /\ runningTasks = IF "restarted" \in sc.features THEN {StaleTask} ELSE {}
       /\ inbound = sc.inbound
       /\ approvals = sc.approvals
       /\ features = sc.features
       /\ \/ /\ sc.stale = "none"
             /\ processed = {} /\ queue = <<>> /\ nextQueueId = 1
          \/ /\ sc.stale = "queued"
             /\ processed = {0} /\ queue = StaleQueue(1) /\ nextQueueId = 2
          \/ /\ sc.stale = "queued2"
             /\ processed = {0, 9} /\ queue = StaleQueue(2) /\ nextQueueId = 3
          \/ /\ sc.stale = "pruned"
             /\ processed = {} /\ queue = StaleQueue(1) /\ nextQueueId = 2

ThreadFree == pollPc # "loop" /\ life.pc # "exited"

(***************************************************************************)
(* poll()                                                                  *)
(***************************************************************************)
Batches == UNION {[1..n -> inbound] : n \in 0..MaxBatch}

\* a tick that starts a cycle although one is in progress
PollSkipRestarts ==
  /\ ThreadFree
  /\ isPolling
  /\ pollPc' = "fetching"
  /\ fetchSince' = <<lastPollTime>>
  /\ outbox' = <<>>
  /\ UNCHANGED <<dbVars, sessVars, isPolling, isProcessingMessage, batch,
                 chains, now, inbound, features, hostVars, lastPollTime, fetchThrew,
                 dispatched>>

\* the timer fires while a cycle is in progress
PollSkip ==
  /\ ThreadFree
  /\ isPolling
  /\ outbox' = <<>>
  /\ UNCHANGED <<dbVars, sessVars, isPolling, isProcessingMessage, pollPc,
                 batch, chains, now, inbound, features, hostVars, fetchVars, dispatched>>

\* the timer fires and no cycle is in progress: getInboundMessages is
\* called with the watermark
PollStart ==
  /\ ThreadFree
  /\ ~isPolling
  /\ isPolling' = TRUE
  /\ pollPc' = "fetching"
  /\ fetchSince' = <<lastPollTime>>
  /\ outbox' = <<>>
  /\ UNCHANGED <<dbVars, sessVars, isProcessingMessage, batch, chains, now,
                 inbound, features, hostVars, lastPollTime, fetchThrew, dispatched>>

\* the fetch returns: "lastPollTime = new Date()"
\* created_at of an event: the events of a scenario were all received in
\* the minute before the daemon started
createdAt(id) == 0 - 1 - id

\* GET /v2/messages?created_at_gte=since.  The transport of a "since"
\* scenario applies the filter to createdAt; the other scenarios leave the
\* creation time of an event open, and any event may be in any answer.
getInboundMessages(since) ==
  { b \in Batches :
      \A i \in DOMAIN b : "since" \in features => createdAt(b[i]) >= since }

PollFetchOk ==
  /\ ThreadFree /\ pollPc = "fetching"
  /\ \E b \in getInboundMessages(fetchSince[1]) : batch' = b
  /\ pollPc' = "loop"
  /\ lastPollTime' = now
  /\ fetchSince' = <<>>
  /\ outbox' = <<>>
  /\ UNCHANGED <<dbVars, sessVars, isPolling, isProcessingMessage, chains,
                 now, inbound, features, hostVars, fetchThrew, dispatched>>

\* a failing fetch that moves the watermark all the same
PollFetchFailAdvancing ==
  /\ "sendfail" \in features
  /\ ThreadFree /\ pollPc = "fetching"
  /\ isPolling' = FALSE
  /\ pollPc' = "idle"
  /\ lastPollTime' = now
  /\ fetchSince' = <<>>
  /\ fetchThrew' = TRUE
  /\ outbox' = <<>>
  /\ UNCHANGED <<dbVars, sessVars, isProcessingMessage, batch, chains, now,
                 inbound, features, hostVars, dispatched>>

\* the fetch throws: poll()'s catch and finally
PollFetchFail ==
  /\ "sendfail" \in features
  /\ ThreadFree /\ pollPc = "fetching"
  /\ isPolling' = FALSE
  /\ pollPc' = "idle"
  /\ fetchSince' = <<>>
  /\ fetchThrew' = TRUE
  /\ outbox' = <<>>
  /\ UNCHANGED <<dbVars, sessVars, isProcessingMessage, batch, chains, now,
                 inbound, features, hostVars, lastPollTime, dispatched>>

InLoop == pollPc = "loop" /\ batch # <<>>

msgHandle == Head(batch)
msgFrom == EventSender(Head(batch))
msgContent == Trim(EventBody(Head(batch)))

\* the directories of the machine: fs.existsSync(p) && isDirectory()
ExistingDirs ==
  {HomeDir, <<"/", "t", "m", "p">>, <<"/", "t", "m", "p", "/", "w">>,
   HomeDir \o <<"x">>, <<"/", "e", "t", "c">>}

\* a router that looks for an approval reply before the commands
KindApprovalFirst ==
  IF /\ getPendingApproval(approvals, msgFrom, now) # <<>>
     /\ isApprovalResponse(msgContent).isApproval
  THEN "approval"
  ELSE Classify(msgContent)

\* the handler the message ends in: a text that is none of the commands is
\* an approval reply if its sender has a pending approval and the text is
\* an approval word
Kind ==
  IF /\ Classify(msgContent) = "freeform"
     /\ getPendingApproval(approvals, msgFrom, now) # <<>>
     /\ isApprovalResponse(msgContent).isApproval
  THEN "approval"
  ELSE Classify(msgContent)

PollSkipProcessed ==
  /\ InLoop
  /\ isMessageProcessed(processed, msgHandle)
  /\ batch' = Tail(batch)
  /\ outbox' = <<>>
  /\ UNCHANGED <<dbVars, sessVars, isPolling, isProcessingMessage, pollPc,
                 chains, now, inbound, features, hostVars, fetchVars, dispatched>>

\* a new message of a sender that is not whitelisted is marked processed
\* and skipped
PollSkipNotWhitelisted ==
  /\ InLoop
  /\ ~isMessageProcessed(processed, msgHandle)
  /\ ~isWhitelisted(msgFrom)
  /\ processed' = markMessageProcessed(processed, msgHandle)
  /\ batch' = Tail(batch)
  /\ outbox' = <<>>
  /\ UNCHANGED <<queue, nextQueueId, runningTasks, conv, approvals,
                 currentProject, sessVars, isPolling, isProcessingMessage,
                 pollPc, chains, now, inbound, features, hostVars, fetchVars, dispatched>>

\* the message is new: it is marked processed and reaches the router
Routed(kind) ==
  /\ InLoop
  /\ ~isMessageProcessed(processed, msgHandle)
  /\ isWhitelisted(msgFrom)
  /\ Kind = kind
  /\ processed' = markMessageProcessed(processed, msgHandle)
  /\ dispatched' = [dispatched EXCEPT ![msgHandle] = IF @ < 2 THEN @ + 1 ELSE @]
  /\ batch' = Tail(batch)

\* a control command: one reply, awaited
Reply(w) ==
  /\ Commit([w EXCEPT !.pollPc = "awaitSend"])
  /\ UNCHANGED <<nextQueueId, now, inbound, features, hostVars, fetchVars>>

PollHelp ==
  /\ Routed("help")
  /\ Reply(Send(World, Msg(msgFrom, "help", <<>>, 0)))

PollStatus ==
  /\ Routed("status")
  /\ LET st == getStatus(World, now)
     IN Reply(Send(World, Msg(msgFrom, "status", st.text, st.num)))

PollQueueView ==
  /\ Routed("queue")
  /\ Reply(Send(World, Msg(msgFrom, "queue", <<>>, getQueueLength(queue))))

PollHistory ==
  /\ Routed("history")
  /\ Reply(Send(World, Msg(msgFrom, "history", <<>>, Len(conv[msgFrom]))))

PollInterrupt ==
  /\ Routed("interrupt")
  /\ Reply(handleInterrupt(World, msgFrom))

\* "home": the stored directory is set to the home directory and the
\* session is dropped
PollHome ==
  /\ Routed("home")
  /\ Reply(Send(killCurrentSession(setWorkingDirectory(World, HomeDir)),
                Msg(msgFrom, "home", HomeDir, 0)))

\* "reset": as home, and the conversation of the sender is cleared
PollReset ==
  /\ Routed("reset")
  /\ LET w1 == setWorkingDirectory(World, HomeDir)
         w2 == [w1 EXCEPT !.conv = clearConversationHistory(@, msgFrom)]
     IN Reply(Send(killCurrentSession(w2), Msg(msgFrom, "reset", HomeDir, 0)))

\* "cd <path>"
PollCd ==
  /\ Routed("cd")
  /\ LET cdResult == isCdCommand(msgContent)
     IN Reply(IF cdResult.error # <<>>
              THEN Send(World, Msg(msgFrom, "cdDenied", cdResult.error, 0))
              ELSE IF cdResult.path \in ExistingDirs
              THEN Send(killCurrentSession(
                          setWorkingDirectory(World, cdResult.path)),
                        Msg(msgFrom, "cdOk", cdResult.path, 0))
              ELSE Send(World, Msg(msgFrom, "cdNotFound", cdResult.path, 0)))

\* an approval word of a sender with a pending approval
PollApproval ==
  /\ Routed("approval")
  /\ LET pendingApproval == getPendingApproval(approvals, msgFrom, now)[1]
         w1 == [World EXCEPT
                  !.approvals = removePendingApproval(@, pendingApproval.id)]
     IN Reply(Send(w1, Msg(msgFrom,
                           IF isApprovalResponse(msgContent).approved
                           THEN "approved" ELSE "rejected",
                           <<>>, pendingApproval.id)))

\* a FreeForm request while busy
PollQueue ==
  /\ Routed("freeform")
  /\ isProcessingMessage \/ runningTasks # {}
  /\ LET q == queueMessage(queue, nextQueueId, msgHandle, msgFrom, msgContent, now)
     IN /\ nextQueueId' = IF q = queue THEN nextQueueId ELSE nextQueueId + 1
        /\ Commit(Send([World EXCEPT !.queue = q, !.pollPc = "awaitSend"],
                       Msg(msgFrom, "queued", msgContent, getQueueLength(q))))
  /\ UNCHANGED <<now, inbound, features, hostVars, fetchVars>>

\* a FreeForm request while idle: processMessage is called and not awaited;
\* it runs to its first await and the loop goes on
PollDispatch ==
  /\ Routed("freeform")
  /\ ~(isProcessingMessage \/ runningTasks # {})
  /\ FreeChainSlots(World) # {}
  /\ LET c == Lowest(FreeChainSlots(World))
     IN Commit(Send([World EXCEPT !.chains[c] =
                       [FreeChain EXCEPT !.pc = "starting",
                                         !.handle = msgHandle,
                                         !.sender = msgFrom,
                                         !.content = msgContent,
                                         !.root = "detached",
                                         !.rootHandle = msgHandle]],
                    Msg(msgFrom, "starting", msgContent, getQueueLength(queue))))
  /\ UNCHANGED <<nextQueueId, now, inbound, features, hostVars, fetchVars>>

PollSendOk ==
  /\ ThreadFree /\ pollPc = "awaitSend"
  /\ pollPc' = "loop"
  /\ outbox' = <<>>
  /\ UNCHANGED <<dbVars, sessVars, isPolling, isProcessingMessage, batch,
                 chains, now, inbound, features, hostVars, fetchVars, dispatched>>

\* the reply throws: poll()'s catch and finally; the rest of the batch is
\* abandoned
PollSendFail ==
  /\ "sendfail" \in features
  /\ ThreadFree /\ pollPc = "awaitSend"
  /\ pollPc' = "idle"
  /\ isPolling' = FALSE
  /\ batch' = <<>>
  /\ outbox' = <<>>
  /\ UNCHANGED <<dbVars, sessVars, isProcessingMessage, chains, now, inbound,
                 features, hostVars, fetchVars, dispatched>>

\* end of the batch: "if (!isProcessingMessage && getQueueLength() > 0)
\* await processQueue()"
PollEndDrain ==
  /\ pollPc = "loop" /\ batch = <<>>
  /\ ~isProcessingMessage /\ getQueueLength(queue) > 0
  /\ FreeChainSlots(World) # {}
  /\ LET c == Lowest(FreeChainSlots(World))
     IN Commit(processQueue([World EXCEPT !.pollPc = "draining",
                                          !.chains[c].root = "poll"], c))
  /\ UNCHANGED <<processed, nextQueueId, batch, now, inbound, features, hostVars, fetchVars, dispatched>>

PollEnd ==
  /\ pollPc = "loop" /\ batch = <<>>
  /\ ~(~isProcessingMessage /\ getQueueLength(queue) > 0)
  /\ pollPc' = "idle"
  /\ isPolling' = FALSE
  /\ outbox' = <<>>
  /\ UNCHANGED <<dbVars, sessVars, isProcessingMessage, batch, chains, now,
                 inbound, features, hostVars, fetchVars, dispatched>>

(***************************************************************************)
(* The awaits of processMessage, processQueue and send()                   *)
(***************************************************************************)
ChainStep(w) ==
  /\ Commit(w)
  /\ UNCHANGED <<processed, nextQueueId, batch, now, inbound, features, hostVars, fetchVars, dispatched>>

TransportError == <<"Sendblue send error">>

\* the "Starting" notice was sent
StartSendOk(c) ==
  /\ ThreadFree /\ chains[c].pc = "starting"
  /\ CanSpawn
  /\ ChainStep(execute(World, c, now))

\* sending it threw: the exception leaves processMessage before its try
StartSendFail(c) ==
  /\ "sendfail" \in features
  /\ ThreadFree /\ chains[c].pc = "starting"
  /\ ChainStep(chainThrow(World, c, TransportError))

\* the "Now processing" notice was sent: processMessage(..., true)
NowProcessingOk(c) ==
  /\ ThreadFree /\ chains[c].pc = "nowProcessing"
  /\ CanSpawn
  /\ ChainStep(execute(World, c, now))

NowProcessingFail(c) ==
  /\ "sendfail" \in features
  /\ ThreadFree /\ chains[c].pc = "nowProcessing"
  /\ ChainStep(chainThrow(World, c, TransportError))

\* the response was sent: it is recorded, then finally and the queue
FinalSendOk(c) ==
  /\ ThreadFree /\ chains[c].pc = "sendingFinal"
  /\ LET ch == chains[c]
         w1 == [World EXCEPT
                  !.conv = trimConversationHistory(
                             addConversationMessage(@, ch.sender, "assistant",
                                                    ch.response, now),
                             ch.sender, conversationWindowSize)]
     IN ChainStep(finallyThenQueue(w1, c))

FinalSendFail(c) ==
  /\ "sendfail" \in features
  /\ ThreadFree /\ chains[c].pc = "sendingFinal"
  /\ ChainStep(catch(World, c, TransportError))

\* the error notice of the catch block was sent
ErrorSendOk(c) ==
  /\ ThreadFree /\ chains[c].pc = "sendingError"
  /\ ChainStep(finallyThenQueue(World, c))

\* sending it threw: finally runs, the exception leaves processMessage
ErrorSendFail(c) ==
  /\ "sendfail" \in features
  /\ ThreadFree /\ chains[c].pc = "sendingError"
  /\ ChainStep(chainThrow([World EXCEPT !.isProcessingMessage = FALSE], c,
                          TransportError))

\* the system error notice of the .catch handler settled, either way
SystemErrorDone(c) ==
  /\ ThreadFree /\ chains[c].pc = "systemError"
  /\ ChainStep([World EXCEPT !.chains[c] = FreeChain])

\* the backoff timer of send() fires: the next attempt
BackoffFire(c) ==
  /\ ThreadFree /\ chains[c].pc = "backoff"
  /\ CanSpawn
  /\ ChainStep(sendAttempt([World EXCEPT !.chains[c].attempt = @ + 1,
                                         !.chains[c].delayMs = 0], c, now))

(***************************************************************************)
(* The worker process and the handlers sendAttempt installs on it          *)
(***************************************************************************)
\* a block of stdout text is appended to the attempt's textOutput
stdoutText(w, p, block) ==
  LET textOutput == Append(w.procs[p].text, block)
  IN [w EXCEPT !.procs[p].text = textOutput,
               !.sessions[w.procs[p].sess].partial = textOutput]

\* the stdout lines of the model: a tool-invocation event, a line of plain
\* output, and an event cut short
ToolLine == <<"{", "u", "}">>
PlainLine == <<"o", "k">>
CutLine == <<"{", "o">>

\* JSON.parse(line), then the kind of the event: <<>> when it throws
JSONparse(line) ==
  IF Len(line) >= 2 /\ Head(line) = "{" /\ line[Len(line)] = "}"
  THEN IF line = ToolLine THEN <<"tool_use">> ELSE <<"other">>
  ELSE <<>>

\* index.ts, processMessage: "activityUpdateCount++", then the notification
\* is sent; the callback's promise is not awaited by the session
onToolActivity(w, c) ==
  Send([w EXCEPT !.chains[c].activityUpdateCount = @ + 1,
                 !.chains[c].activityInFlight = @ + 1],
       Msg(w.chains[c].sender, "activity", <<>>, 0))

\* a callback for every tool-invocation event
toolUseUnthrottled(w, p, t) ==
  onToolActivity([w EXCEPT !.procs[p].toolCount = @ + 1,
                           !.procs[p].lastActivityTime = EpochMs + t],
                 w.procs[p].chain)

\* processStreamEvent, a tool_use block: "if (now - ctx.lastActivityTime()
\* >= ctx.activityIntervalMs)"
toolUse(w, p, t) ==
  LET w1 == [w EXCEPT !.procs[p].toolCount = @ + 1]
  IN IF (EpochMs + t) - w.procs[p].lastActivityTime >= activityIntervalMs
     THEN onToolActivity([w1 EXCEPT !.procs[p].lastActivityTime = EpochMs + t],
                         w.procs[p].chain)
     ELSE w1

\* a fallback that keeps every line that is no JSON
rawFallbackAll(w, p, line) ==
  [w EXCEPT !.procs[p].text = @ \o line \o <<"\n">>]

\* the catch of the stdout handler: "if (line.trim() &&
\* !line.startsWith('{')) textOutput += line + '\n'"
rawFallback(w, p, line) ==
  IF Trim(line) # <<>> /\ ~StartsWith(line, <<"{">>)
  THEN [w EXCEPT !.procs[p].text = @ \o line \o <<"\n">>]
  ELSE w

\* the stdout handler for one complete line, then "this.partialOutput =
\* textOutput"
stdoutLine(w, p, line, t) ==
  LET event == JSONparse(line)
      w1 == IF Trim(line) = <<>> THEN w
            ELSE IF event = <<>> THEN rawFallback(w, p, line)
            ELSE IF event = <<"tool_use">> THEN toolUse(w, p, t)
            ELSE w
  IN [w1 EXCEPT !.sessions[w.procs[p].sess].partial = w1.procs[p].text]

\* the worker reports a tool invocation
WorkerTool(p) ==
  /\ "tool" \in features
  /\ ThreadFree /\ procs[p].state = "running"
  /\ chains[procs[p].chain].pc = "running"
  /\ procs[p].toolCount < MaxTools
  /\ ChainStep(stdoutLine(World, p, ToolLine, now))

\* the worker writes a line that is no JSON event
WorkerRaw(p) ==
  /\ "raw" \in features
  /\ ThreadFree /\ procs[p].state = "running"
  /\ procs[p].rawCount < MaxRaw
  /\ \E line \in {PlainLine, CutLine} :
       ChainStep(stdoutLine([World EXCEPT !.procs[p].rawCount = @ + 1,
                                          !.procs[p].line = line],
                            p, line, now))

\* an activity notification whose failure aborts the execution
activityCatchRethrown(w, c) ==
  catch([w EXCEPT !.chains[c].activityInFlight = @ - 1,
                  !.chains[c].activityFailed = TRUE],
        c, <<"Sendblue send error">>)

\* onToolActivity's catch: "console.error('[Activity] Send failed:', err)"
activityCatch(w, c) ==
  [w EXCEPT !.chains[c].activityInFlight = @ - 1,
            !.chains[c].activityFailed = TRUE]

\* the notification was sent
ActivitySendOk(c) ==
  /\ ThreadFree /\ chains[c].activityInFlight > 0
  /\ ChainStep([World EXCEPT !.chains[c].activityInFlight = @ - 1])

\* sending it threw
ActivitySendFail(c) ==
  /\ "sendfail" \in features
  /\ ThreadFree /\ chains[c].activityInFlight > 0
  /\ ChainStep(activityCatch(World, c))

WorkerText(p) ==
  /\ "text" \in features
  /\ ThreadFree /\ procs[p].state = "running"
  /\ Len(procs[p].text) < MaxOut
  /\ ChainStep(stdoutText(World, p, "x"))

\* a text block of white space only
WorkerBlank(p) ==
  /\ "blank" \in features
  /\ ThreadFree /\ procs[p].state = "running"
  /\ Len(procs[p].text) < MaxOut
  /\ ChainStep(stdoutText(World, p, " "))

\* a 'close' handler that looks at the exit code before the text
closeHandlerCodeFirst(w, p, code, errorOutput) ==
  LET s == w.procs[p].sess
      c == w.procs[p].chain
      textOutput == w.procs[p].text
      w1 == cleanup([w EXCEPT !.sessions[s].proc = NoProc], s)
      w2 == [w1 EXCEPT !.procs[p] = FreeProc]
  IN IF w.procs[p].settled THEN w2
     ELSE IF code # "0"
          THEN onReject(w2, c, <<"Claude exited with code", code>> \o errorOutput)
     ELSE IF Trim(textOutput) # <<>> THEN onResolve(w2, c, Trim(textOutput))
     ELSE onResolve(w2, c, NoResponse)

\* proc.on('close')
closeHandler(w, p, code, errorOutput) ==
  LET s == w.procs[p].sess
      c == w.procs[p].chain
      textOutput == w.procs[p].text
      w1 == cleanup([w EXCEPT !.sessions[s].proc = NoProc], s)
      w2 == [w1 EXCEPT !.procs[p] = FreeProc]
  IN IF w.procs[p].settled THEN w2
     ELSE IF Trim(textOutput) # <<>> THEN onResolve(w2, c, Trim(textOutput))
     ELSE IF code # "0"
          THEN onReject(w2, c, <<"Claude exited with code", code>> \o errorOutput)
     ELSE onResolve(w2, c, NoResponse)

\* the worker exits by itself with code 0
WorkerExit(p) ==
  /\ ThreadFree /\ procs[p].state = "running"
  /\ ChainStep(closeHandler(World, p, "0", <<>>))

\* the worker exits with code 1 and an error that is not transient
WorkerCrash(p) ==
  /\ "crash" \in features
  /\ ThreadFree /\ procs[p].state = "running"
  /\ ChainStep(closeHandler(World, p, "1", <<"boom">>))

\* the worker fails with an overload error on stderr
WorkerOverloaded(p) ==
  /\ "overload" \in features
  /\ ThreadFree /\ procs[p].state = "running"
  /\ ChainStep(closeHandler(World, p, "1", <<"Overloaded">>))

\* the worker exits after kill('SIGTERM')
WorkerKilledExit(p) ==
  /\ ThreadFree /\ procs[p].state = "killed"
  /\ ChainStep(closeHandler(World, p, "null", <<>>))

\* a timeout that terminates the worker and leaves the attempt pending
timeoutHandlerKillOnly(w, p) ==
  [kill(w, w.procs[p].sess) EXCEPT !.procs[p].settled = TRUE]

\* the 10-minute timer of the attempt
timeoutHandler(w, p) ==
  LET c == w.procs[p].chain
      textOutput == w.procs[p].text
      w1 == kill(w, w.procs[p].sess)
      w2 == [w1 EXCEPT !.procs[p].settled = TRUE, !.procs[p].chain = 0]
  IN IF Trim(textOutput) # <<>>
     THEN onResolve(w2, c, Trim(textOutput) \o TimedOutMarker)
     ELSE onReject(w2, c, <<"Response timeout">>)

\* the timer is set and 'close' has not cleared it
TimerPending(p) ==
  /\ "timeout" \in features
  /\ ThreadFree /\ procs[p].state \in {"running", "killed"}
  /\ ~procs[p].settled

WorkerTimeout(p) ==
  /\ TimerPending(p)
  /\ ChainStep(timeoutHandler(World, p))

Tick ==
  /\ "clock" \in features
  /\ ThreadFree
  /\ now < MaxClock * TickMs
  /\ now' = now + TickMs
  /\ outbox' = <<>>
  /\ UNCHANGED <<dbVars, sessVars, isPolling, isProcessingMessage, pollPc,
                 batch, chains, inbound, features, hostVars, fetchVars, dispatched>>

\* the hourly timer of init(): cleanupOldProcessedMessages (no row of this
\* run is 7 days old) and cleanupExpiredApprovals
Sweep ==
  /\ "sweep" \in features
  /\ ThreadFree
  /\ approvals' = cleanupExpiredApprovals(approvals, now)
  /\ outbox' = <<>>
  /\ UNCHANGED <<processed, queue, nextQueueId, runningTasks, conv,
                 currentProject, sessVars, isPolling, isProcessingMessage,
                 pollPc, batch, chains, now, inbound, features, hostVars, fetchVars, dispatched>>

(***************************************************************************)
(* shutdown(signal): SIGINT and SIGTERM                                    *)
(***************************************************************************)
\* a teardown that leaves the PID file and the session behind
TeardownExitOnly(lf) ==
  /\ life' = [lf EXCEPT !.pollInterval = FALSE, !.dbOpen = FALSE,
                        !.pc = "exited", !.exitCode = 0]
  /\ outbox' = <<>>
  /\ UNCHANGED <<dbVars, sessVars, isPolling, isProcessingMessage, pollPc,
                 batch, chains, now, inbound, features, fetchVars, lock,
                 stdio, dispatched, stdio>>

\* "if (pollInterval) clearInterval(pollInterval); killCurrentSession();
\* closeDb(); releaseLock(); process.exit(0)"
Teardown(lf) ==
  /\ Commit(killCurrentSession(World))
  /\ lock' = releaseLock(lock, 1)
  /\ life' = [lf EXCEPT !.pollInterval = FALSE, !.dbOpen = FALSE,
                        !.pc = "exited", !.exitCode = 0]
  /\ UNCHANGED <<processed, nextQueueId, batch, now, inbound, features,
                 fetchVars, dispatched, stdio>>

\* the first signal: with a task executing the handler starts to wait,
\* otherwise it tears down at once
Signal ==
  /\ "signal" \in features
  /\ ThreadFree
  /\ ~life.shutdownRequested
  /\ LET lf == [life EXCEPT !.shutdownRequested = TRUE, !.signals = 1]
     IN IF isProcessingMessage /\ 0 < maxWait
        THEN /\ \E lag \in 0..MaxLagMs :
                  life' = [lf EXCEPT !.pc = "waiting", !.lag = lag]
             /\ outbox' = <<>>
             /\ UNCHANGED <<dbVars, sessVars, isPolling, isProcessingMessage,
                            pollPc, batch, chains, now, inbound, features,
                            fetchVars, lock, stdio,
                            dispatched>>
        ELSE Teardown(lf)

\* a sleep of the wait loop is over: "while (isProcessingMessage &&
\* (Date.now() - startWait) < maxWait)"
ShutdownWake ==
  /\ ThreadFree
  /\ life.pc = "waiting"
  /\ LET lf == [life EXCEPT !.waited = @ + WaitStepMs + life.lag]
     IN IF isProcessingMessage /\ lf.waited < maxWait
        THEN /\ life' = lf
             /\ outbox' = <<>>
             /\ UNCHANGED <<dbVars, sessVars, isPolling, isProcessingMessage,
                            pollPc, batch, chains, now, inbound, features,
                            fetchVars, lock, stdio,
                            dispatched>>
        ELSE Teardown(lf)

\* a signal while shutdown() is waiting: "if (shutdownRequested)
\* process.exit(1)"
SignalAgain ==
  /\ "signal" \in features
  /\ ThreadFree
  /\ life.shutdownRequested
  /\ life' = [life EXCEPT !.signals = 2, !.pc = "exited", !.exitCode = 1]
  /\ outbox' = <<>>
  /\ UNCHANGED <<dbVars, sessVars, isPolling, isProcessingMessage, pollPc,
                 batch, chains, now, inbound, features, fetchVars, lock,
                 stdio, dispatched>>

Shutdown == Signal \/ ShutdownWake \/ SignalAgain

PollCycle ==
  \/ PollSkip \/ PollStart \/ PollFetchOk \/ PollFetchFail
  \/ PollSkipProcessed \/ PollSkipNotWhitelisted \/ PollQueue \/ PollDispatch
  \/ PollSendOk \/ PollSendFail \/ PollEndDrain \/ PollEnd

Executor ==
  \E c \in 1..MaxChains :
    \/ StartSendOk(c) \/ StartSendFail(c)
    \/ NowProcessingOk(c) \/ NowProcessingFail(c)
    \/ FinalSendOk(c) \/ FinalSendFail(c)
    \/ ErrorSendOk(c) \/ ErrorSendFail(c)
    \/ ActivitySendOk(c) \/ ActivitySendFail(c)
    \/ SystemErrorDone(c)

Worker ==
  \E p \in 1..MaxProcs :
    \/ WorkerText(p) \/ WorkerBlank(p) \/ WorkerExit(p) \/ WorkerCrash(p)
    \/ WorkerOverloaded(p)
    \/ WorkerTool(p) \/ WorkerRaw(p)
    \/ WorkerKilledExit(p) \/ WorkerTimeout(p)

\* the orchestrator: poll cycle, router, executor, queue drain, worker
Next ==
  \/ PollCycle
  \/ PollHelp \/ PollStatus \/ PollQueueView \/ PollHistory \/ PollInterrupt
  \/ PollHome \/ PollReset \/ PollCd \/ PollApproval
  \/ Sweep
  \/ Shutdown
  \/ Executor
  \/ \E c \in 1..MaxChains : BackoffFire(c)
  \/ Worker
  \/ Tick

Spec == Init /\ [][Next]_vars

(***************************************************************************)
(* Two daemon instances started on one PID file: main() calls acquireLock  *)
(* and exits with code 1 when it returns false; a running instance shuts   *)
(* down through releaseLock or dies without it.                            *)
(***************************************************************************)
NoLock == [file |-> <<>>, inst |-> [i \in Instances |-> OffInstance]]

\* the PID file a killed daemon left behind: no process has that pid now
StalePid == 3

StaleLock == [NoLock EXCEPT !.file = <<StalePid>>]

LockInit ==
  /\ InitCommon
  /\ runningTasks = {}
  /\ stdio = NoStream
  /\ inbound = {} /\ approvals = <<>> /\ features = {}
  /\ processed = {} /\ queue = <<>> /\ nextQueueId = 1
  /\ dispatched = [id \in EventIds |-> 0]
  /\ lock \in {NoLock, StaleLock}

LockStep(l) ==
  /\ lock' = l
  /\ UNCHANGED <<dbVars, sessVars, fetchVars, isPolling, isProcessingMessage,
                 pollPc, batch, chains, now, inbound, features, life, stdio,
                 outbox,
                 dispatched>>

Launch(i) ==
  /\ lock.inst[i].pc \in {"off", "refused"}
  /\ LockStep([lock EXCEPT !.inst[i] = [OffInstance EXCEPT !.pc = "exists"]])

AcquireExists(i) ==
  /\ lock.inst[i].pc = "exists"
  /\ LockStep(acquireExists(lock, i))

AcquireRead(i) ==
  /\ lock.inst[i].pc = "read"
  /\ LockStep(acquireRead(lock, i))

AcquireCheck(i) ==
  /\ lock.inst[i].pc = "check"
  /\ LockStep(acquireCheck(lock, i))

AcquireWrite(i) ==
  /\ lock.inst[i].pc = "write"
  /\ LockStep(acquireWrite(lock, i))

ReleaseExists(i) ==
  /\ lock.inst[i].pc = "held"
  /\ LockStep(releaseExists(lock, i))

ReleaseRead(i) ==
  /\ lock.inst[i].pc = "relRead"
  /\ LockStep(releaseRead(lock, i))

ReleaseUnlink(i) ==
  /\ lock.inst[i].pc = "relUnlink"
  /\ LockStep(releaseUnlink(lock, i))

\* SIGKILL, or process.exit without releaseLock
Die(i) ==
  /\ lock.inst[i].pc = "held"
  /\ LockStep([lock EXCEPT !.inst[i] = OffInstance])

LockNext ==
  \E i \in Instances :
    \/ Launch(i)
    \/ AcquireExists(i) \/ AcquireRead(i) \/ AcquireCheck(i) \/ AcquireWrite(i)
    \/ ReleaseExists(i) \/ ReleaseRead(i) \/ ReleaseUnlink(i)
    \/ Die(i)

LockSpec == LockInit /\ [][LockNext]_vars

(***************************************************************************)
(* Requests whose worker may hang: the timers of the session (the hard     *)
(* timeout of an attempt, the backoff of send()) fire, the transport       *)
(* answers every call, accepting or refusing it, and the poll cycle runs   *)
(* on; nothing makes a worker write, exit, or die when it is killed.       *)
(***************************************************************************)
LiveScenarios ==
  { Scenario({1}, "none", {"text", "timeout", "overload", "sendfail"}),
    Scenario({1, 2}, "none", {"timeout"}),
    Scenario({1}, "none", {"restarted", "text"}) }

LiveInit ==
  /\ InitCommon
  /\ lock = HeldLock
  /\ stdio = NoStream
  /\ processed = {} /\ queue = <<>> /\ nextQueueId = 1
  /\ \E sc \in LiveScenarios :
       /\ runningTasks = IF "restarted" \in sc.features THEN {StaleTask} ELSE {}
       /\ inbound = sc.inbound /\ approvals = sc.approvals
       /\ features = sc.features

PollRuns ==
  \/ PollFetchOk \/ PollSkipProcessed \/ PollQueue \/ PollDispatch
  \/ PollSendOk \/ PollEndDrain \/ PollEnd \/ PollFetchFail

TransportAnswers(c) ==
  \/ StartSendOk(c) \/ NowProcessingOk(c) \/ FinalSendOk(c) \/ ErrorSendOk(c)
  \/ StartSendFail(c) \/ FinalSendFail(c) \/ ErrorSendFail(c)
  \/ SystemErrorDone(c)

LiveNext ==
  \/ PollSkip \/ PollStart \/ PollRuns
  \/ \E c \in 1..MaxChains : TransportAnswers(c) \/ BackoffFire(c)
  \/ \E p \in 1..MaxProcs :
       \/ WorkerText(p) \/ WorkerExit(p) \/ WorkerOverloaded(p)
       \/ WorkerKilledExit(p) \/ WorkerTimeout(p)

\* the hard timeout of an attempt of worker p is armed
TimerArmed(p) ==
  procs[p].state \in {"running", "killed"} /\ ~procs[p].settled

\* send() of execution c sleeps between two attempts
InBackoff(c) == chains[c].pc = "backoff"

\* execution c awaits the transport's answer to a message it sent
SendPending(c) ==
  chains[c].pc \in {"starting", "nowProcessing", "sendingFinal", "sendingError"}

\* The poll cycle, once started, runs to its end (weak fairness of its
\* steps).  A timer that is due runs as soon as the thread is free, which the
\* end of the poll cycle makes happen again and again: strong fairness of
\* WorkerTimeout(p) and BackoffFire(c), and of the transport's answers, stated
\* by what each of them ends (an armed timer does not stay armed forever, a
\* backoff does not last forever, a call of the transport does not stay
\* unanswered forever).  Nothing is assumed of a worker.
LiveSpec ==
  /\ LiveInit
  /\ [][LiveNext]_vars
  /\ WF_vars(PollRuns)
  /\ \A p \in 1..MaxProcs : []<>(~TimerArmed(p))
  /\ \A c \in 1..MaxChains : []<>(~InBackoff(c)) /\ []<>(~SendPending(c))

(***************************************************************************)
(* claude-session.js: the stdout 'data' handler of one attempt, chunk by   *)
(* chunk.  The worker writes a text; the pipe hands it over in chunks cut  *)
(* at any position; the handler keeps the unfinished line in lineBuffer.   *)
(***************************************************************************)
MaxStream == 4

StreamChars == {"a", " ", "\n"}

StreamTexts == UNION {[1..n -> StreamChars] : n \in 0..MaxStream}

\* String.prototype.split('\n'): the pieces between the newlines, the one
\* after the last newline included
RECURSIVE splitAcc(_, _, _)
splitAcc(s, acc, cur) ==
  IF s = <<>> THEN Append(acc, cur)
  ELSE IF Head(s) = "\n" THEN splitAcc(Tail(s), Append(acc, cur), <<>>)
  ELSE splitAcc(Tail(s), acc, Append(cur, Head(s)))

split(s) == splitAcc(s, <<>>, <<>>)

\* "if (!line.trim()) continue": the lines that reach JSON.parse
NonBlank(ls) == SelectSeq(ls, LAMBDA l : Trim(l) # <<>>)

\* proc.stdout.on('data'): lineBuffer += text; lines = lineBuffer.split('\n');
\* lineBuffer = lines.pop() || ''; for (const line of lines) ...
onData(st, data) ==
  LET pieces == split(st.lineBuffer \o data)
  IN [st EXCEPT !.lineBuffer = pieces[Len(pieces)],
                !.lines = @ \o NonBlank(SubSeq(pieces, 1, Len(pieces) - 1))]

\* proc.on('close'): the promise is settled from textOutput; lineBuffer is
\* not looked at again
onClose(st) == [st EXCEPT !.closed = TRUE]

StreamStep(st) ==
  /\ stdio' = st
  /\ UNCHANGED <<dbVars, sessVars, fetchVars, isPolling, isProcessingMessage,
                 pollPc, batch, chains, now, inbound, features, lock, life,
                 outbox, dispatched>>

StreamInit ==
  /\ InitCommon
  /\ runningTasks = {}
  /\ lock = HeldLock
  /\ inbound = {} /\ approvals = <<>> /\ features = {}
  /\ processed = {} /\ queue = <<>> /\ nextQueueId = 1
  /\ \E text \in StreamTexts :
       stdio = [NoStream EXCEPT !.written = text, !.pending = text]

\* the next chunk of the pipe arrives
StdoutData ==
  /\ ~stdio.closed /\ stdio.pending # <<>>
  /\ \E n \in 1..Len(stdio.pending) :
       StreamStep(onData([stdio EXCEPT !.pending = SubSeq(@, n + 1, Len(@))],
                         SubSeq(stdio.pending, 1, n)))

\* the worker has exited and the pipe is drained
StdoutClose ==
  /\ ~stdio.closed /\ stdio.pending = <<>>
  /\ StreamStep(onClose(stdio))

StreamNext == StdoutData \/ StdoutClose

StreamSpec == StreamInit /\ [][StreamNext]_vars

(***************************************************************************)
(* Properties                                                              *)
(***************************************************************************)
RunningWorkers == {p \in 1..MaxProcs : procs[p].state = "running"}

\* the worker of the execution has been spawned and its response or error
\* has not been delivered yet
Executing(c) ==
  chains[c].pc \in {"running", "backoff", "sendingFinal", "sendingError"}

\* the poll loop is about to hand a new message of this kind to its handler
Handling(kind) ==
  /\ InLoop
  /\ ~isMessageProcessed(processed, msgHandle)
  /\ isWhitelisted(msgFrom)
  /\ Kind = kind

AlreadyQueued(handle) ==
  \E i \in 1..Len(queue) : queue[i].message_handle = handle

\* C1: at most one worker process is running at any instant: a second
\* worker is never spawned while an earlier one is still running.
C1_SingleFlight == Cardinality(RunningWorkers) <= 1

C3_BusyFreeFormIsQueued ==
  [][(/\ Handling("freeform")
      /\ isProcessingMessage \/ runningTasks # {}
      /\ processed' # processed)
     => /\ IF AlreadyQueued(msgHandle)
           THEN queue' = queue
           ELSE /\ Len(queue') = Len(queue) + 1
                /\ SubSeq(queue', 1, Len(queue)) = queue
                /\ queue'[Len(queue')].message_handle = msgHandle
                /\ queue'[Len(queue')].content = msgContent
        /\ UNCHANGED <<runningTasks, procs, sessions, currentSession,
                       chains, isProcessingMessage, conv>>]_vars

\* a request has just been queued behind a running worker
C3_QueuedBehindWorker ==
  /\ Len(outbox) = 1 /\ outbox[1].kind = "queued"
  /\ Len(queue) > 0
  /\ queue[Len(queue)].content = outbox[1].text
  /\ outbox[1].num = Len(queue)
  /\ RunningWorkers # {}

\* C4: requests taken from the queue execute one after the other: the
\* execution of one is over before the execution of the next one starts.
C4_QueuedOneAtATime ==
  \A c1, c2 \in 1..MaxChains :
    (/\ c1 # c2
     /\ chains[c1].fromQueue /\ Executing(c1)
     /\ chains[c2].fromQueue /\ Executing(c2)) => FALSE

\* C5: a request taken from the queue, whose "Now processing" notice is
\* being sent, goes on to be executed: it is never dropped.
C5_DequeuedIsExecuted ==
  [][\A c \in 1..MaxChains :
       chains[c].pc = "nowProcessing"
       => /\ chains'[c].pc \in {"nowProcessing", "running", "sendingError"}
          /\ chains'[c].handle = chains[c].handle]_vars

\* C6: where handleInterrupt calls interruptCurrentTask: with a worker
\* running, the call returns the text that worker has written so far, no
\* worker runs after it and running_tasks is empty; with no worker running
\* it returns null and changes nothing.
C6_InterruptContract ==
  (Handling("interrupt") /\ runningTasks # {})
  => LET after == interruptCurrentTask(World)
     IN IF RunningWorkers # {}
        THEN /\ ~InterruptIsNull(World)
             /\ \A p \in RunningWorkers : InterruptResult(World) = procs[p].text
             /\ \A p \in 1..MaxProcs : after.procs[p].state # "running"
             /\ after.runningTasks = {}
        ELSE /\ InterruptIsNull(World)
             /\ after = World

\* C7: while a task executes, no poll cycle is suspended on it: the next
\* timer tick fetches, so a control command that arrives meanwhile is
\* answered without waiting for the task.
C7_PollNotHeldByTask ==
  \A c \in 1..MaxChains :
    chains[c].pc \in {"running", "backoff"} => pollPc # "draining"

\* C8: the status command handled while a running_tasks row exists sends
\* exactly one reply, which carries the Elapsed line with the seconds since
\* started_at, and leaves the queue, the running_tasks row, the conversation
\* log, the session and the workers as they are.
C8_StatusFrame ==
  [][(/\ Handling("status")
      /\ runningTasks # {}
      /\ processed' # processed)
     => /\ Len(outbox') = 1
        /\ outbox'[1].kind = "status"
        /\ outbox'[1].to = msgFrom
        /\ \E i \in 1..Len(outbox'[1].text) : outbox'[1].text[i] = "Elapsed"
        /\ \A r \in runningTasks :
             /\ 1000 * outbox'[1].num - 500 <= now - r.started_at
             /\ now - r.started_at < 1000 * outbox'[1].num + 500
        /\ UNCHANGED <<queue, runningTasks, conv, sessions, currentSession,
                       currentDir, procs, chains, isProcessingMessage>>]_vars

\* the status reply of a task started a second ago
C8_StatusOfRunningTask ==
  /\ Len(outbox) = 1 /\ outbox[1].kind = "status"
  /\ outbox[1].num = 1
  /\ runningTasks # {}
  /\ RunningWorkers # {}

\* C9: when the response of a request that was dispatched while idle has
\* been delivered, the sender's log ends with the assistant turn holding
\* the response, the user turn of the request is before it, and
\* running_tasks is empty.
C9_IdleRequestRecorded ==
  [][\A c \in 1..MaxChains :
       (/\ chains[c].pc = "sendingFinal"
        /\ ~chains[c].fromQueue
        /\ chains'[c].pc \notin {"sendingFinal", "sendingError"})
       => LET log == conv'[chains[c].sender]
          IN /\ Len(log) >= 2
             /\ log[Len(log)].role = "assistant"
             /\ log[Len(log)].content = chains[c].response
             /\ \E i \in 1..(Len(log) - 1) :
                  log[i].role = "user" /\ log[i].content = chains[c].content
             /\ runningTasks' = {}]_vars

\* C10: when the timeout of an attempt fires, send() resolves with the
\* trimmed text and the marker if there is text, and throws the timeout
\* error if there is none; after it the worker of the attempt does not run
\* and running_tasks is empty.
C10_TimeoutContract ==
  \A p \in 1..MaxProcs :
    (TimerPending(p) /\ procs[p].chain # 0)
    => LET c == procs[p].chain
           after == timeoutHandler(World, p)
       IN /\ IF Trim(procs[p].text) # <<>>
             THEN /\ after.chains[c].pc = "sendingFinal"
                  /\ after.chains[c].response = Trim(procs[p].text) \o TimedOutMarker
             ELSE /\ after.chains[c].pc = "sendingError"
                  /\ after.out = <<Msg(chains[c].sender, "error",
                                       <<"Response timeout">>, 0)>>
          /\ after.procs[p].state # "running"
          /\ after.runningTasks = {}

\* the exit codes and stderr contents a worker can end with
ExitCodes == {"0", "1", "null"}
ErrorStreams == {<<>>, <<"boom">>, <<"Overloaded">>}

\* the promise of the attempt is pending and its process has not closed
AttemptOpen(p) ==
  /\ ThreadFree
  /\ procs[p].state \in {"running", "killed"}
  /\ ~procs[p].settled

ExitError(code, errorOutput) == <<"Claude exited with code", code>> \o errorOutput

\* C11: when the worker of a pending attempt exits, the attempt resolves
\* with the trimmed text if that is non-empty, whatever the exit code;
\* otherwise, with a non-zero code, it rejects with the error stream (the
\* rejection reaches the caller of send(), or is retried when it is
\* transient and attempts are left); otherwise it resolves with the
\* no-response sentinel.
C11_ExitHandling ==
  \A p \in 1..MaxProcs : AttemptOpen(p) =>
    \A code \in ExitCodes : \A errorOutput \in ErrorStreams :
      LET c == procs[p].chain
          after == closeHandler(World, p, code, errorOutput)
      IN IF Trim(procs[p].text) # <<>>
         THEN /\ after.chains[c].pc = "sendingFinal"
              /\ after.chains[c].response = Trim(procs[p].text)
         ELSE IF code # "0"
         THEN IF /\ isRetryable(ExitError(code, errorOutput))
                 /\ chains[c].attempt < maxRetries
              THEN after.chains[c].pc = "backoff" /\ after.out = <<>>
              ELSE /\ after.chains[c].pc = "sendingError"
                   /\ after.out = <<Msg(chains[c].sender, "error",
                                        ExitError(code, errorOutput), 0)>>
         ELSE /\ after.chains[c].pc = "sendingFinal"
              /\ after.chains[c].response = NoResponse

\* a worker that wrote text has exited and its text is being sent
C11_TextOfExitedWorker ==
  \E c \in 1..MaxChains :
    /\ chains[c].pc = "sendingFinal"
    /\ chains[c].response = <<"x">>
    /\ \A p \in 1..MaxProcs : procs[p].chain # c

\* the error messages an attempt can reject with
AttemptErrors ==
  {<<"Response timeout">>, <<"Claude exited with code", "1", "boom">>,
   <<"Claude exited with code", "null">>}
  \cup {<<"Claude exited with code", "1", marker>> : marker \in RetryMarkers}

\* C12: send() never makes more than three attempts; a failed attempt is
\* followed by another only if the error text holds an overload or
\* rate-limit marker and fewer than three attempts were made, after a wait
\* of the base delay times 2^(attempt-1); any other failure is passed on at
\* once, with no retry and no wait.
C12_RetryPolicy ==
  \A c \in 1..MaxChains :
    /\ chains[c].attempt <= maxRetries
    /\ chains[c].pc = "backoff" <=> chains[c].delayMs # 0
    /\ (ThreadFree /\ chains[c].pc = "running") =>
         \A errorMsg \in AttemptErrors :
           LET after == onReject(World, c, errorMsg)
               attempt == chains[c].attempt
               marked == \E i \in 1..Len(errorMsg) :
                           errorMsg[i] \in {"529", "overload", "Overloaded",
                                            "rate_limit", "capacity"}
           IN /\ attempt \in 1..maxRetries
              /\ after.chains[c].attempt = attempt
              /\ IF marked /\ attempt < 3
                 THEN /\ after.chains[c].pc = "backoff"
                      /\ after.chains[c].delayMs
                           = (IF attempt = 1 THEN 5000 ELSE 10000)
                      /\ after.out = <<>>
                 ELSE /\ after.chains[c].pc = "sendingError"
                      /\ after.chains[c].delayMs = 0
                      /\ after.out
                           = <<Msg(chains[c].sender, "error", errorMsg, 0)>>

\* the third attempt failed with an overload error, which is being reported
C12_RetriesExhausted ==
  \E c \in 1..MaxChains :
    /\ chains[c].attempt = maxRetries
    /\ chains[c].pc = "sendingError"
    /\ Len(outbox) = 1 /\ outbox[1].kind = "error"
    /\ "Overloaded" \in {outbox[1].text[i] : i \in 1..Len(outbox[1].text)}

\* C15: a new event whose sender, with the non-digits stripped on both
\* sides, equals no whitelist entry is marked processed and causes nothing
\* else: no reply, no queue entry, no conversation turn, no change of the
\* sessions, the workers or the executions.
C15_StrangerIsDropped ==
  [][(/\ InLoop
      /\ ~isMessageProcessed(processed, msgHandle)
      /\ \A w \in whitelist :
           SelectSeq(w, IsDigit) # SelectSeq(msgFrom, IsDigit))
     => /\ processed' = processed \cup {msgHandle}
        /\ outbox' = <<>>
        /\ UNCHANGED <<queue, runningTasks, conv, approvals, currentProject,
                       isProcessingMessage, chains, sessVars>>]_vars

\* the event of the sender that is not whitelisted was fetched and marked,
\* and a request of the whitelisted number in another format was accepted
C15_StrangerMarked ==
  /\ 19 \in processed /\ dispatched[19] = 0
  /\ conv[PhoneB] = <<>>
  /\ dispatched[20] = 1

\* the poll loop is about to handle a new message of a whitelisted sender
NewMessage ==
  /\ InLoop
  /\ ~isMessageProcessed(processed, msgHandle)
  /\ isWhitelisted(msgFrom)

\* C13: a pending approval whose expires_at is earlier than the current
\* time is not returned by getPendingApproval, no reply handled by the poll
\* loop removes it, and cleanupExpiredApprovals called now deletes it.
C13_ExpiredApproval ==
  [][\A i \in 1..Len(approvals) :
       approvals[i].expires_at < now
       => /\ getPendingApproval(approvals, approvals[i].phone_number, now)
               # <<approvals[i]>>
          /\ InLoop => \E j \in 1..Len(approvals') : approvals'[j] = approvals[i]
          /\ \A j \in 1..Len(cleanupExpiredApprovals(approvals, now)) :
               cleanupExpiredApprovals(approvals, now)[j] # approvals[i]]_vars

\* "Yes" was handled when no approval of its sender was live any more, and
\* the sweep has deleted the expired row and kept the one expiring now
C13_SweptAfterYes ==
  /\ 10 \in processed
  /\ now = TickMs
  /\ approvals = <<Approval(2, PhoneA, TickMs)>>

\* C14: the poll loop removes an approval only when the sender of a new
\* message has a non-expired approval and the text is one of the approval
\* words, and then removes that approval; a text of that sender that is no
\* command and no approval word leaves the approvals as they are and is
\* queued or started as a request; a message of a sender without a live
\* approval changes no approval.
C14_ApprovalResolution ==
  [][InLoop =>
       LET live == {i \in 1..Len(approvals) :
                      /\ approvals[i].phone_number = msgFrom
                      /\ approvals[i].expires_at > now}
           word == Normalized(msgContent) \in approvePatterns \cup rejectPatterns
       IN /\ approvals' # approvals
               => /\ NewMessage /\ live # {} /\ word
                  /\ \E i \in live :
                       /\ approvals' = SelectSeq(approvals,
                                         LAMBDA r : r.id # approvals[i].id)
                       /\ outbox' = <<Msg(msgFrom,
                                          IF Normalized(msgContent) \in approvePatterns
                                          THEN "approved" ELSE "rejected",
                                          <<>>, approvals[i].id)>>
          /\ (/\ NewMessage /\ live # {} /\ ~word
              /\ Classify(msgContent) = "freeform"
              /\ processed' # processed)
               => /\ approvals' = approvals
                  /\ Len(outbox') = 1
                  /\ outbox'[1].kind \in {"queued", "starting"}
          /\ live = {} => approvals' = approvals]_vars

\* "maybe" went to the executor while the approval was open, and "Yes" has
\* now resolved it
C14_ResolvedAfterOtherText ==
  /\ dispatched[11] = 1
  /\ approvals = <<>>
  /\ outbox = <<Msg(PhoneA, "approved", <<>>, 1)>>

\* C16 (as stated): a cd whose resolved path lies neither in the home tree
\* nor in the /tmp tree is answered with the access-denied reply and leaves
\* the stored working directory and the session as they are.
C16_CdConfined ==
  [][(/\ NewMessage
      /\ Classify(msgContent) = "cd"
      /\ processed' # processed
      /\ ~Within(CdResolved(msgContent), HomeDir)
      /\ ~Within(CdResolved(msgContent), <<"/", "t", "m", "p">>))
     => /\ outbox' = <<Msg(msgFrom, "cdDenied", AccessDenied, 0)>>
        /\ UNCHANGED <<currentProject, currentSession, currentDir>>]_vars

\* the reply kinds of the handlers
RepliesOf(kind) ==
  CASE kind = "interrupt"
         -> {"nothingToInterrupt", "interruptedPartial", "interruptedNoOutput"}
    [] kind = "cd" -> {"cdOk", "cdDenied", "cdNotFound"}
    [] kind = "approval" -> {"approved", "rejected"}
    [] kind = "freeform" -> {"queued", "starting"}
    [] OTHER -> {kind}

TaskIds == {k * TickMs : k \in 0..MaxClock}

\* C18: the running_tasks table never holds more than one row; whatever it
\* holds, setRunningTask leaves exactly the new row, updateRunningTaskPid
\* changes the pid of the row with the given id and nothing else, and
\* clearRunningTask leaves no row.
C18_SingleRunningTask ==
  /\ Cardinality(runningTasks) <= 1
  /\ clearRunningTask(runningTasks) = {}
  /\ \A id \in TaskIds :
       /\ setRunningTask(runningTasks, id, <<"d">>, now)
            = {[id |-> id, description |-> <<"d">>, started_at |-> now,
                pid |-> NoProc]}
       /\ \A pid \in 1..MaxProcs :
            LET updated == updateRunningTaskPid(runningTasks, id, pid)
            IN /\ Cardinality(updated) = Cardinality(runningTasks)
               /\ \A r \in runningTasks :
                    IF r.id = id
                    THEN [id |-> r.id, description |-> r.description,
                          started_at |-> r.started_at, pid |-> pid] \in updated
                    ELSE r \in updated

\* a second attempt was started while a row existed, and one row, with the
\* pid of a worker, is in the table
C18_RowReplaced ==
  /\ \E p, q \in 1..MaxProcs :
       p # q /\ procs[p].state = "running" /\ procs[q].state = "running"
  /\ \E r \in runningTasks : r.pid # NoProc

\* the execution of chain c ends in this step: its final response was sent,
\* or its error notice was sent or failed to be sent
ExecutionEnds(c) ==
  \/ chains[c].pc = "sendingFinal"
       /\ chains'[c].pc \notin {"sendingFinal", "sendingError"}
  \/ chains[c].pc = "sendingError" /\ chains'[c].pc # "sendingError"

C21_OneCycle ==
  [][/\ isPolling <=> pollPc # "idle"
     /\ fetchSince' # fetchSince /\ fetchSince' # <<>>
          => /\ pollPc = "idle" /\ ~isPolling
             /\ pollPc' = "fetching" /\ isPolling'
     /\ (isPolling /\ ThreadFree /\ pollPc' = pollPc)
          => UNCHANGED <<batch, processed, fetchVars, isPolling>>
     /\ (pollPc # "idle" /\ pollPc' = "idle") => ~isPolling']_vars

\* a cycle ended with its fetch throwing, and a later tick has started the
\* next cycle
C21_TickAfterThrow ==
  /\ fetchThrew
  /\ pollPc = "fetching" /\ isPolling

\* C22: the watermark changes only when a fetch returns, to the time of the
\* return; a fetch that throws leaves it as it is; and every fetch is made
\* with the watermark of that moment, so the fetch after a failed one asks
\* for the same window.
C22_Watermark ==
  [][/\ lastPollTime' # lastPollTime
          => /\ pollPc = "fetching" /\ pollPc' = "loop"
             /\ lastPollTime' = now
     /\ (pollPc = "fetching" /\ pollPc' = "idle")
          => lastPollTime' = lastPollTime
     /\ (pollPc # "fetching" /\ pollPc' = "fetching")
          => fetchSince' = <<lastPollTime>>]_vars

\* the first fetch threw and the fetch now in flight asks again for the
\* window that starts a minute before startup
C22_SameWindowAgain ==
  /\ fetchThrew
  /\ pollPc = "fetching"
  /\ fetchSince = <<0 - PollLookbackMs>>

\* C23: at most one live daemon instance holds the single-instance lock at
\* any time, whatever the interleaving of two instances' acquireLock steps
\* and releaseLock: acquireLock succeeds only if the PID file does not name
\* a live daemon other than the caller, and releaseLock removes the file only
\* when it contains the caller's own pid
Holders == {i \in Instances : lock.inst[i].pc = "held"}

C23_SingleInstance ==
  [][/\ Cardinality(Holders') <= 1
     /\ \A i \in Instances :
          /\ (lock.inst[i].pc = "write" /\ lock'.inst[i].pc = "held")
               => ~(/\ lock.file # <<>>
                    /\ lock.file[1] # i
                    /\ isOurDaemon(lock, lock.file[1]))
          /\ (lock.inst[i].pc = "relUnlink" /\ lock'.file = <<>>)
               => lock.file = <<i>>]_vars

\* C24: a shutdown signal received while a task is executing makes
\* shutdown() wait: it sleeps again only while the processing flag is set
\* and less than 30 s have passed (so the wait ends with the sleep that is
\* in progress when the 30 s are over, or earlier when the flag clears);
\* the teardown that follows, and the one of a signal received with no task
\* executing, stops the poll timer, tears down the worker session, closes
\* the store, removes the PID file and exits with code 0; a second signal
\* during the wait exits at once with code 1
C24_Shutdown ==
  [][/\ (life.signals = 0 /\ life'.signals = 1 /\ isProcessingMessage)
          => /\ life'.pc = "waiting" /\ life'.waited = 0
             /\ UNCHANGED <<dbVars, sessVars, lock, isProcessingMessage>>
     /\ (life.pc = "waiting" /\ life'.pc = "waiting" /\ life' # life)
          => /\ isProcessingMessage
             /\ life'.waited < maxWait
             /\ UNCHANGED <<dbVars, sessVars, lock, isProcessingMessage>>
     /\ (life.pc = "waiting" /\ life'.pc = "exited" /\ life'.signals = 1)
          => /\ ~isProcessingMessage \/ life'.waited >= maxWait
             /\ life.waited < maxWait
     /\ (life.pc # "exited" /\ life'.pc = "exited" /\ life'.signals = 1)
          => /\ life'.exitCode = 0
             /\ ~life'.pollInterval
             /\ ~life'.dbOpen
             /\ currentSession' = NoSession
             /\ \A p \in 1..MaxProcs :
                  (/\ currentSession # NoSession
                   /\ sessions[currentSession].proc = p
                   /\ procs[p].state = "running") => procs'[p].state = "killed"
             /\ lock'.file = <<>>
     /\ (life.signals = 1 /\ life'.signals = 2)
          => /\ life.pc = "waiting"
             /\ life'.pc = "exited" /\ life'.exitCode = 1]_vars

\* the task was still executing when the 30 s were over
C24_WaitTimedOut ==
  /\ life.pc = "exited" /\ life.exitCode = 0
  /\ life.waited >= maxWait
  /\ isProcessingMessage

\* C25 (as stated): the step that handles a home or reset command, or a cd
\* command whose path is an existing directory inside the allowed trees,
\* stores the directory as the working directory, drops the current session
\* and leaves no worker of that session running; the first worker of a
\* request is spawned in the stored working directory; and the step that
\* handles a cd to a path that is not an existing directory changes neither
\* the working directory nor the session.
C25_DirectoryChange ==
  [][/\ (NewMessage /\ processed' # processed
           /\ \/ Kind \in {"home", "reset"}
              \/ /\ Kind = "cd"
                 /\ isCdCommand(msgContent).error = <<>>
                 /\ isCdCommand(msgContent).path \in ExistingDirs)
          => /\ currentProject' = IF Kind = "cd"
                                  THEN isCdCommand(msgContent).path
                                  ELSE HomeDir
             /\ currentSession' = NoSession
             /\ \A p \in 1..MaxProcs :
                  (procs[p].state = "running" /\ procs[p].sess = currentSession)
                     => procs'[p].state # "running"
     /\ \A c \in 1..MaxChains, p \in 1..MaxProcs :
          (/\ chains[c].pc \in {"starting", "nowProcessing"}
           /\ chains'[c].pc = "running"
           /\ procs[p].state = "free" /\ procs'[p].state = "running")
             => sessions'[procs'[p].sess].dir = getWorkingDirectory(World)
     /\ (NewMessage /\ processed' # processed
           /\ Kind = "cd"
           /\ isCdCommand(msgContent).error = <<>>
           /\ isCdCommand(msgContent).path \notin ExistingDirs)
          => UNCHANGED <<currentProject, sessVars>>]_vars

\* the slot holds no row of this process: it is empty, or it still holds
\* the row a crashed process left, this process having executed no request
SlotEmpty ==
  \/ runningTasks = {}
  \/ runningTasks = {StaleTask} /\ \A phone \in Senders : conv[phone] = <<>>

NothingExecuting ==
  ~isProcessingMessage /\ \A p \in 1..MaxProcs : procs[p].state # "running"

\* C26: whenever the processing flag is false and no worker is running
\* after a request of this process has finished, failed, timed out or been
\* interrupted, the running_tasks table is empty (before the first
\* execution it holds at most the row a crashed process left); and the
\* step that spawns the worker of an attempt leaves exactly one row, with
\* the task id of that attempt and the pid of the spawned worker.
C26_RunningTaskSlot ==
  [][/\ NothingExecuting => SlotEmpty
     /\ NothingExecuting' => SlotEmpty'
     /\ \A p \in 1..MaxProcs :
          (procs[p].state = "free" /\ procs'[p].state = "running")
             => LET c == procs'[p].chain
                IN /\ Cardinality(runningTasks') = 1
                   /\ \A r \in runningTasks' :
                        r.id = chains'[c].taskId /\ r.pid = p]_vars

\* a request has been answered and nothing is executing
C26_IdleAfterRequest ==
  /\ NothingExecuting
  /\ runningTasks = {}
  /\ \E phone \in Senders :
       \E i \in 1..Len(conv[phone]) : conv[phone][i].role = "assistant"

\* C27: the step in which the sending of an activity notification fails
\* changes nothing but the bookkeeping of that notification: no store row,
\* no session, no worker, not the processing flag, and nothing is sent; and
\* an execution that had such a failure and whose worker delivers a
\* response sends it as the final response (with the 'Done' prefix), and
\* when that send succeeds the response is the sender's newest turn, with
\* the assistant role
C27_ActivityFailureSwallowed ==
  [][\A c \in 1..MaxChains :
       /\ (/\ chains'[c].activityFailed
           /\ chains'[c].activityInFlight = chains[c].activityInFlight - 1)
          => /\ chains'[c] = [chains[c] EXCEPT !.activityInFlight = @ - 1,
                                               !.activityFailed = TRUE]
             /\ UNCHANGED <<dbVars, sessVars, isProcessingMessage>>
             /\ outbox' = <<>>
       /\ (/\ chains[c].activityFailed
           /\ chains[c].pc = "running" /\ chains'[c].pc = "sendingFinal")
          => outbox' = <<Msg(chains[c].sender, "final", chains'[c].response, 1)>>
       /\ (/\ chains[c].activityFailed
           /\ chains[c].pc = "sendingFinal"
           /\ chains'[c].pc \notin {"sendingFinal", "sendingError"})
          => LET turns == conv'[chains[c].sender]
             IN /\ turns # <<>>
                /\ turns[Len(turns)].role = "assistant"
                /\ turns[Len(turns)].content = chains[c].response]_vars

\* an activity notification failed and the final response is being sent
C27_FinalAfterFailedActivity ==
  \E c \in 1..MaxChains :
    /\ chains[c].activityFailed
    /\ chains[c].pc = "sendingFinal"
    /\ chains[c].activityUpdateCount > 0

\* C28: within one attempt the first tool-invocation event triggers the
\* activity callback; a later one triggers it exactly if at least
\* activityIntervalMs have passed since the previous callback of the
\* attempt, so two consecutive callbacks are at least that far apart
C28_ActivityThrottle ==
  [][\A p \in 1..MaxProcs :
       (procs[p].state = "running"
          /\ procs'[p].toolCount = procs[p].toolCount + 1)
       => LET c == procs[p].chain
              called == chains'[c].activityUpdateCount
                          = chains[c].activityUpdateCount + 1
              sincePrevious == (EpochMs + now) - procs[p].lastActivityTime
          IN /\ procs[p].toolCount = 0 => called
             /\ procs[p].toolCount > 0
                  => (called <=> sincePrevious >= activityIntervalMs)
             /\ called
                  => /\ outbox' = <<Msg(chains[c].sender, "activity", <<>>, 0)>>
                     /\ procs'[p].lastActivityTime = EpochMs + now
             /\ ~called
                  => /\ outbox' = <<>>
                     /\ UNCHANGED chains
                     /\ procs'[p].lastActivityTime = procs[p].lastActivityTime]_vars

\* three tool events of one attempt: one of them came too soon after a
\* callback, and a later one triggered the second callback
C28_SecondCallback ==
  \E p \in 1..MaxProcs :
    /\ procs[p].state = "running"
    /\ procs[p].toolCount = 3
    /\ chains[procs[p].chain].activityUpdateCount = 2

C30_WindowKept ==
  [][\A c \in 1..MaxChains :
       (/\ chains[c].pc = "sendingFinal"
        /\ chains'[c].pc \notin {"sendingFinal", "sendingError"})
       => LET phone == chains[c].sender
              log == Append(conv[phone],
                            [role |-> "assistant",
                             content |-> chains[c].response,
                             timestamp |-> now])
              keep == conversationWindowSize
          IN /\ Len(conv'[phone]) <= keep
             /\ conv'[phone] = IF Len(log) <= keep THEN log
                               ELSE SubSeq(log, Len(log) - keep + 1, Len(log))
             /\ \A other \in Senders \ {phone} : conv'[other] = conv[other]]_vars

\* C31: with the timers firing and the transport answering, every send()
\* settles: an execution that is in an attempt or in the backoff between
\* two attempts leaves send() at some time, whatever its worker does, no
\* execution makes more than maxRetries attempts, and a processing flag
\* that is set is cleared at some time
C31_SendSettles ==
  /\ \A c \in 1..MaxChains :
       (chains[c].pc \in {"running", "backoff"})
          ~> (chains[c].pc \notin {"running", "backoff"})
  /\ [](\A c \in 1..MaxChains : chains[c].attempt <= maxRetries)
  /\ isProcessingMessage ~> ~isProcessingMessage

\* the flag is false again although a worker that was terminated by its
\* timeout has not exited
C31_SettledWithHungWorker ==
  /\ ~isProcessingMessage
  /\ \E p \in 1..MaxProcs : procs[p].state = "killed" /\ procs[p].settled

\* no execution is in progress, nothing is queued and the poll cycle is over
Quiescent ==
  /\ pollPc = "idle" /\ batch = <<>> /\ queue = <<>>
  /\ \A c \in 1..MaxChains : chains[c].pc = "free"

\* request 1 was executed: its user turn is in the conversation
Executed1 ==
  \E i \in 1..Len(conv[EventSender(1)]) :
     /\ conv[EventSender(1)][i].role = "user"
     /\ conv[EventSender(1)][i].content = EventBody(1)

\* C32: after a restart that found the RunningTask row of a crashed process,
\* a FreeForm request that came in is executed and the stale row is replaced
\* and then removed: once the request has been taken from the transport and
\* nothing is queued or in progress any more, it has been executed and no
\* row is left
C32_StaleRowDoesNotBlock ==
  ("restarted" \in features /\ 1 \in processed /\ Quiescent)
     => (Executed1 /\ runningTasks = {})

\* the same with a transport that answers every call, as a progress property
C32_StaleRowLeadsToExecution ==
  ("restarted" \in features /\ 1 \in processed)
     ~> (Executed1 /\ runningTasks = {})

\* C33: a send failure while answering one event of a batch loses no other
\* event of the batch: when the cycle gives up a batch, each event left in
\* it is either marked processed or will be returned by a later fetch (it
\* was created at or after the watermark)
C33_BatchNotLost ==
  [][("since" \in features /\ batch # <<>> /\ batch' = <<>>)
        => \A i \in DOMAIN batch :
              \/ isMessageProcessed(processed', batch[i])
              \/ createdAt(batch[i]) >= lastPollTime']_vars

\* C34: no queued request is lost: when the 'Now processing' notice of a
\* request that processQueue took from the queue is answered, accepted or
\* not, the request is executed: its user turn is appended and a worker is
\* invoked for it
C34_DequeuedIsExecuted ==
  [][\A c \in 1..MaxChains :
        (chains[c].pc = "nowProcessing" /\ chains'[c] # chains[c])
           => /\ chains'[c].handle = chains[c].handle
              /\ chains'[c].pc = "running"
              /\ \E i \in 1..Len(conv'[chains[c].sender]) :
                    /\ conv'[chains[c].sender][i].role = "user"
                    /\ conv'[chains[c].sender][i].content = chains[c].content
              /\ \E p \in 1..MaxProcs :
                    procs'[p].state = "running" /\ procs'[p].chain = c]_vars

\* C35: a session that was torn down while one of its requests waited in the
\* retry backoff spawns no further worker: when the backoff of such a
\* request is over, every live worker belongs to the current session, runs
\* in the persisted working directory and is the process an interrupt kills
C35_NoWorkerAfterTeardown ==
  [][\A c \in 1..MaxChains :
        (/\ chains[c].pc = "backoff"
         /\ chains[c].sess # currentSession
         /\ chains'[c] # chains[c])
           => \A p \in 1..MaxProcs :
                 procs'[p].state = "running"
                    => /\ procs'[p].sess = currentSession'
                       /\ sessions'[procs'[p].sess].dir = getWorkingDirectory(World)'
                       /\ sessions'[procs'[p].sess].proc = p]_vars

\* C36: from the spawn of a request's first worker until its send() settles,
\* the backoff between two attempts included, a RunningTask row is present,
\* and no message sent in that window says 'Nothing to interrupt'
C36_RowUntilSettled ==
  [][(\E c \in 1..MaxChains : chains[c].pc \in {"running", "backoff"})
        => /\ runningTasks # {}
           /\ \A i \in DOMAIN outbox' : outbox'[i].kind # "nothingToInterrupt"]_vars

\* C37: whenever a current session exists, the directory it is bound to,
\* and the directory the session manager remembers for it, is the persisted
\* working directory
C37_SessionInPersistedDir ==
  currentSession # NoSession
     => /\ sessions[currentSession].dir = getWorkingDirectory(World)
        /\ currentDir = getWorkingDirectory(World)

\* after a cd and a later request, a session exists in a directory other
\* than the home directory
C37_SessionAfterCd ==
  /\ currentSession # NoSession
  /\ sessions[currentSession].dir # HomeDir
  /\ sessions[currentSession].dir = currentProject

\* C38: every line the worker wrote before it exited is processed exactly
\* once and in order, however the output was cut into chunks, a last line
\* without a newline included: when the pipe is closed, the lines that
\* reached the parser are the non-blank lines of the text written
C38_LinesOnceInOrder ==
  stdio.closed => stdio.lines = NonBlank(split(stdio.written))

\* C39: once shutdown has begun, no new request starts executing: from the
\* signal to the exit of the process no FreeForm event is dispatched, no
\* request is taken from the queue to be started
C39_NoStartAfterSignal ==
  [][(life.shutdownRequested /\ life.pc # "exited")
        => /\ Len(queue') >= Len(queue)
           /\ \A c \in 1..MaxChains :
                 chains[c].pc # chains'[c].pc
                    => chains'[c].pc \notin {"starting", "nowProcessing"}]_vars

====
